---- MODULE Spec2Model ----
(***************************************************************************)
(* python-wekan: the HTTP client (wekan/wekan_client.py).                  *)
(*                                                                         *)
(* WekanClient holds base_url, username, password and, once a login has    *)
(* succeeded, user_id, token and token_expire_date.  Its one operation,    *)
(* fetch_json, checks the token's expiry, attaches the headers, hands the  *)
(* request to the HTTP transport and classifies the response.              *)
(*                                                                         *)
(* Time is counted in whole hours.  A call in progress is a stack of       *)
(* fetch_json frames: the login that fetch_json starts for an expired      *)
(* token is itself a fetch_json call (fetch_json -> __renew_login_data ->  *)
(* __get_api_token -> fetch_json).                                         *)
(***************************************************************************)
EXTENDS Integers, Sequences, FiniteSets, TLC

VARIABLES
    username,           \* self.username ("" before construction)
    password,           \* self.password
    user_id,            \* self.user_id, NoAttr while the attribute is not set
    token,              \* self.token
    token_expire_date,  \* self.token_expire_date: the raw tokenExpires string
    now,                \* the true UTC instant (hours)
    tz,                 \* the host's local time-zone offset from UTC (hours)
    stack,              \* the fetch_json frames of the operation in progress
    sent,               \* requests handed to the transport by this operation
    logins,             \* entries of __get_api_token during this operation
    op,                 \* the operation in progress or last finished
    entry,              \* the session as the operation found it
    outcome,            \* how the last finished operation ended
    response,           \* the last response the operation received
    issued              \* the login responses __get_api_token has unpacked, in order

\* The client's state.
cvars == <<username, password, user_id, token, token_expire_date, now, tz,
           stack, sent, logins, op, entry, outcome, response, issued>>

(***************************************************************************)
(* The resource proxies (wekan/base.py, board.py, wekan_list.py, card.py). *)
(* One proxy is followed, with the resource it names on the server.  Each  *)
(* fetch_json call a proxy makes either returns or raises.                 *)
(***************************************************************************)
VARIABLES
    px,                 \* the proxy object: its kind, id and fields
    srv,                \* the resource on the server
    pcall,              \* the proxy method in progress: name, arguments, position
    plog,               \* the fetch_json calls of this method so far
    pres,               \* how the last finished method ended
    pentry,             \* the proxy as the method found it
    pctor               \* the id the proxy was constructed with

pvars == <<px, srv, pcall, plog, pres, pentry, pctor>>

(***************************************************************************)
(* Equality of proxies (WekanBase.__hash__, __eq__).                       *)
(***************************************************************************)
VARIABLES
    str_hash,           \* hash() of each id string in this process
    lhs,                \* the left operand of ==
    rhs,                \* the right operand of ==
    eq                  \* what lhs == rhs gave

evars == <<str_hash, lhs, rhs, eq>>

(***************************************************************************)
(* Construction of a card from the representation its GET returned         *)
(* (WekanCard.__init__, the field copies).                                 *)
(***************************************************************************)
VARIABLES
    card_data,          \* the decoded representation
    card                \* what the constructor made of it

kvars == <<card_data, card>>

(***************************************************************************)
(* Loading the CLI configuration (wekan/cli/config.py).                    *)
(***************************************************************************)
VARIABLES
    environ,            \* os.environ: the WEKAN_ variables, by field name
    config_file,        \* the config file: whether it exists, and its KEY=VALUE lines
    config              \* what load_config gave

gvars == <<environ, config_file, config>>

(***************************************************************************)
(* Checklist items (wekan/card_checklist_item.py).                         *)
(***************************************************************************)
VARIABLES
    item,               \* the CardChecklistItem proxy and the ids of its parents
    icall,              \* the method of the item called last
    ilog,               \* the fetch_json calls of that method
    ires                \* how that method ended

ivars == <<item, icall, ilog, ires>>

(***************************************************************************)
(* WekanCard.edit with arguments of every type it takes: str, bool, int    *)
(* and list.                                                               *)
(***************************************************************************)
VARIABLES
    edit_args,          \* the keyword arguments of the call
    edit_sent           \* the requests the call made

avars == <<edit_args, edit_sent>>

(***************************************************************************)
(* WekanClient.list_boards.                                                *)
(***************************************************************************)
VARIABLES
    public_boards,      \* the ids in the response to GET /api/boards
    private_boards,     \* the ids in the response to GET /api/users/{user_id}/boards
    board_titles,       \* the title the GET of each board returns
    listing,            \* how far the list_boards call under way has come
    listed              \* what list_boards gave

bvars == <<public_boards, private_boards, board_titles, listing, listed>>

(***************************************************************************)
(* Several WekanCard proxies of one card on the server, each running       *)
(* assign_member (card.py lines 98-105).                                   *)
(***************************************************************************)
VARIABLES
    replicas,           \* per proxy: its members field, its call's position and arguments
    card_members,       \* the member list of the card on the server
    assigned_users      \* the user ids passed to the assign_member calls that returned

rvars == <<replicas, card_members, assigned_users>>


(***************************************************************************)
(* The navigation shell (wekan/cli/navigation.py).                         *)
(*   nav          level, board, list_obj and card of the NavigationContext *)
(*   remote       the lists of every board and the cards of every list     *)
(*   command      the last command line read by the session                *)
(*   proxy_calls  the proxy and client calls that command has issued       *)
(*   printed      what that command has printed, prompts included          *)
(*   turn         where the session stands: at its prompt, waiting for the *)
(*                answer to a request, or waiting in Confirm.ask           *)
(***************************************************************************)
VARIABLES
    nav,
    remote,
    command,
    proxy_calls,
    printed,
    turn

nvars == <<nav, remote, command, proxy_calls, printed, turn>>

\* The layers above besides the client, the proxies and equality.
others == <<kvars, gvars, ivars, avars, bvars, rvars, nvars>>

vars == <<cvars, pvars, evars, others>>

\* What the actions of one layer leave alone.
notClient == <<pvars, evars, others>>

notProxy == <<cvars, evars, others>>

notEq == <<cvars, pvars, others>>

notCard == <<cvars, pvars, evars, gvars, ivars, avars, bvars, rvars, nvars>>

notConfig == <<cvars, pvars, evars, kvars, ivars, avars, bvars, rvars, nvars>>

notItem == <<cvars, pvars, evars, kvars, gvars, avars, bvars, rvars, nvars>>

notEdit == <<cvars, pvars, evars, kvars, gvars, ivars, bvars, rvars, nvars>>

notBoards == <<cvars, pvars, evars, kvars, gvars, ivars, avars, rvars, nvars>>

notShared == <<cvars, pvars, evars, kvars, gvars, ivars, avars, bvars, nvars>>

notNav == <<cvars, pvars, evars, kvars, gvars, ivars, avars, bvars, rvars>>

(***************************************************************************)
(* Bounds of the model.                                                    *)
(***************************************************************************)
MaxTime == 3    \* instants 0..MaxTime
MaxDepth == 3   \* fetch_json frames the interpreter's recursion limit allows

(***************************************************************************)
(* Values.                                                                 *)
(***************************************************************************)
NoStatus == 0   \* status_code = None

NoAttr == "<no attribute>"

\* An ISO-8601 timestamp: wall-clock hour and zone designator.
NoDate == [wall |-> 0, zone |-> NoAttr]

Zones == {"Z", "+01:00"}

IsoDates == [wall : 0..MaxTime, zone : Zones]

Usernames == {"alice", "bob"}

Passwords == {"secret"}

UserIds == {"u1"}

Tokens == {"t1", "t2"}

LoginPath == "/users/login"

Paths == {"/api/boards"}

Methods == {"GET", "POST", "PUT", "DELETE"}

Statuses == {200, 202, 400, 401, 404, 500}

ContentTypeJson == "application/json; charset=utf-8"

\* payload = {} (lines 142-143) and the credentials of line 107.
EmptyPayload == [username |-> "", password |-> ""]

Credentials_Swapped(u, p) == [username |-> p, password |-> u]

Credentials(u, p) == [username |-> u, password |-> p]

\* The Authorization header: absent, or "Bearer <token>" (line 148).
NoAuthorization == [scheme |-> "", credentials |-> ""]

Bearer_AsBasic(t) == [scheme |-> "Basic", credentials |-> t]

Bearer(t) == [scheme |-> "Bearer", credentials |-> t]

(***************************************************************************)
(* Response bodies.  A body is its raw text; shape says what json.loads    *)
(* makes of it.  An object body may carry a "reason" and the login keys.   *)
(***************************************************************************)
PlainBody(shape) ==
    [shape |-> shape, reason |-> NoAttr, keys |-> {},
     id |-> "", token |-> "", tokenExpires |-> NoDate]

NoBody == PlainBody(NoAttr)

EmptyObject == PlainBody("object")

ReasonBody(r) == [EmptyObject EXCEPT !.reason = r]

LoginKeys == {"id", "token", "tokenExpires"}

LoginBody(i, t, e) ==
    [EmptyObject EXCEPT !.keys = LoginKeys, !.id = i, !.token = t, !.tokenExpires = e]

PartialLoginBody(i, t) ==
    [EmptyObject EXCEPT !.keys = {"id", "token"}, !.id = i, !.token = t]

\* "reason" values: strings, and null (a JSON value that is no string).
NullReason == "<null>"

Reasons == {"Username already exists", "Error: Username already exists [403]",
            "Forbidden", NullReason}

\* "Username already exists" in reason  (line 170)
ContainsUsernameExists(reason) ==
    reason \in {"Username already exists", "Error: Username already exists [403]"}

ErrorBodies ==
    {PlainBody(s) : s \in {"empty", "text", "object", "array", "scalar"}}
        \cup {ReasonBody(r) : r \in Reasons}

LoginBodies ==
    {LoginBody(i, t, e) : i \in UserIds, t \in Tokens, e \in IsoDates}
        \cup {PartialLoginBody(i, t) : i \in UserIds, t \in Tokens}

\* What the server may answer to a request for uri.
ServerBodies(uri) == IF uri = LoginPath THEN ErrorBodies \cup LoginBodies ELSE ErrorBodies

(***************************************************************************)
(* Results of a call: a returned value or a raised exception.              *)
(***************************************************************************)
NoValue == [as |-> "none", body |-> NoBody]

JsonValue(body) == [as |-> "json", body |-> body]

TextValue(body) == [as |-> "text", body |-> body]

Return(v) ==
    [kind |-> "return", exc |-> "", status_code |-> NoStatus,
     prefix |-> "", text |-> NoBody, value |-> v]

\* An exception of class exc with message prefix + text and the given status_code.
Raise(exc, prefix, text, status_code) ==
    [kind |-> "raise", exc |-> exc, status_code |-> status_code,
     prefix |-> prefix, text |-> text, value |-> NoValue]

\* error names the exception the transport raised in place of a response.
NoResponse == [status |-> NoStatus, body |-> NoBody, error |-> ""]

NoOutcome ==
    [kind |-> "none", exc |-> "", status_code |-> NoStatus,
     prefix |-> "", text |-> NoBody, value |-> NoValue]

Taxonomy == {"WekanAPIError", "WekanNotFoundError", "WekanAuthenticationError",
             "UsernameAlreadyExists"}

\* response.raise_for_status() raises HTTPError for 4xx and 5xx.
raise_for_status(status) == status >= 400 /\ status < 600

\* response.json() decodes the body, or raises JSONDecodeError.
IsJson(body) == body.shape \in {"object", "array", "scalar"}

\* The classification with the conflict check moved before the 401/404 checks.
HandleResponse_ConflictFirst(http_method, status, body) ==
    IF raise_for_status(status)
    THEN IF body.shape = "object" /\ ContainsUsernameExists(body.reason)
         THEN Raise("UsernameAlreadyExists", "Username already exists", NoBody, NoStatus)
         ELSE IF status = 401
         THEN Raise("WekanAuthenticationError", "Authentication failed: ", body, status)
         ELSE IF status = 404
         THEN Raise("WekanNotFoundError", "Resource not found: ", body, status)
         ELSE Raise("WekanAPIError", "API error: ", body, status)
    ELSE IF IsJson(body)
         THEN Return(JsonValue(body))
         ELSE Raise("WekanAPIError", "Could not decode the API response. ", body, NoStatus)

\* The classification with the legacy DELETE branch taken for any status.
HandleResponse_DeleteText(http_method, status, body) ==
    IF raise_for_status(status)
    THEN IF status = 401
         THEN Raise("WekanAuthenticationError", "Authentication failed: ", body, status)
         ELSE IF status = 404
         THEN Raise("WekanNotFoundError", "Resource not found: ", body, status)
         ELSE Raise("WekanAPIError", "API error: ", body, status)
    ELSE IF IsJson(body)
         THEN Return(JsonValue(body))
         ELSE IF status \in {200, 201, 204} /\ body.shape = "empty"
         THEN Return(JsonValue(EmptyObject))
         ELSE IF http_method = "DELETE"
         THEN Return(TextValue(body))
         ELSE Raise("WekanAPIError", "Could not decode the API response. ", body, NoStatus)

\* fetch_json, lines 156-192: what the call makes of a received response.
HandleResponse(http_method, status, body) ==
    IF raise_for_status(status)
    THEN IF status = 401
         THEN Raise("WekanAuthenticationError", "Authentication failed: ", body, status)
         ELSE IF status = 404
         THEN Raise("WekanNotFoundError", "Resource not found: ", body, status)
         ELSE IF ~IsJson(body)
         THEN Raise("WekanAPIError", "API error: ", body, status)
         ELSE IF body.shape # "object"
         THEN Raise("AttributeError", "object has no attribute 'get'", NoBody, NoStatus)
         ELSE IF body.reason = NullReason
         THEN Raise("TypeError", "argument is not iterable", NoBody, NoStatus)
         ELSE IF body.reason # NoAttr /\ ContainsUsernameExists(body.reason)
         THEN Raise("UsernameAlreadyExists", "Username already exists", NoBody, NoStatus)
         ELSE Raise("WekanAPIError", "API error: ", body, status)
    ELSE IF IsJson(body)
         THEN Return(JsonValue(body))
         ELSE IF status \in {200, 201, 204} /\ body.shape = "empty"
         THEN Return(JsonValue(EmptyObject))
         ELSE IF status = 500 /\ http_method = "DELETE"
         THEN Return(TextValue(body))
         ELSE Raise("WekanAPIError", "Could not decode the API response. ", body, NoStatus)

\* __get_api_token, line 109: the three keys of the decoded login response.
get_api_token(r) ==
    IF r.kind = "raise" THEN r
    ELSE IF r.value.as # "json" \/ r.value.body.shape # "object"
    THEN Raise("TypeError", "not subscriptable by str", NoBody, NoStatus)
    ELSE IF ~(LoginKeys \subseteq r.value.body.keys)
    THEN Raise("KeyError", "missing key", NoBody, NoStatus)
    ELSE Return(JsonValue(r.value.body))

\* A renewal that replaces the token and keeps the expiry it had.
renew_login_data_KeepsExpiry(b) ==
    [user_id |-> b.id, token |-> b.token, token_expire_date |-> token_expire_date]

\* __renew_login_data, line 42: the session after unpacking login response b.
renew_login_data(b) ==
    [user_id |-> b.id, token |-> b.token, token_expire_date |-> b.tokenExpires]

(***************************************************************************)
(* The expiry check.                                                       *)
(***************************************************************************)
ZoneOffset(zone) == IF zone = "+01:00" THEN 1 ELSE 0

\* parse_iso_date: the instant an ISO-8601 string names ("Z" is "+00:00").
parse_iso_date(date_str) == date_str.wall - ZoneOffset(date_str.zone)

\* datetime.now(): the host's local wall-clock time.
datetime_now(utc, offset) == utc + offset

\* __is_api_token_expired, lines 129-131: local time relabelled as UTC.
is_api_token_expired(expire, utc, offset) ==
    parse_iso_date(expire) < datetime_now(utc, offset)

(***************************************************************************)
(* The state machine.                                                      *)
(***************************************************************************)
Session == [user_id |-> user_id, token |-> token, token_expire_date |-> token_expire_date]

NoSession == [user_id |-> NoAttr, token |-> NoAttr, token_expire_date |-> NoDate]

\* A fetch_json call: pc is "check" (line 145), "send" (line 153) or "wait"
\* (the request is with the transport); from names the caller.
Frame(uri, method, payload, from) ==
    [uri |-> uri, method |-> method, payload |-> payload,
     authorization |-> NoAuthorization, pc |-> "check", from |-> from]

\* The login call of __get_api_token, lines 107-108.
LoginFrame(from) == Frame(LoginPath, "POST", Credentials(username, password), from)

\* The request of lines 153-155 as the transport receives it.
Request(f) ==
    [method |-> f.method, uri |-> f.uri, authorization |-> f.authorization,
     content_type |-> ContentTypeJson, data |-> f.payload]

Top == stack[Len(stack)]

Below == SubSeq(stack, 1, Len(stack) - 1)

(***************************************************************************)
(* Proxy values.  A proxy is followed through the fields the operations    *)
(* below read or write: id, the parent list of a card, title, archived,    *)
(* members and, for a list, cards_count.                                   *)
(***************************************************************************)
\* An argument left at its default None.
Absent == "<None>"

Kinds == {"Board", "WekanList", "WekanCard"}

Ids == {"x1", "x2"}

ListIds == {"l1", "l2"}

\* The titles a resource may have when its proxy is constructed.
Titles == {"A"}

MemberIds == {"u1"}

\* list_cards_count as the JSON numeral the server sends.
CardCounts == {"3"}

\* The id the server gives the card create_card makes.
NewCardId == "x9"

\* A datetime handed to set_due_date.
Dues == {"2030-01-01 00:00"}

\* date.isoformat() of the datetimes above.
isoformat(d) == IF d = "2030-01-01 00:00" THEN "2030-01-01T00:00:00" ELSE d

\* The object before __init__ has run: no attribute is set.
NoProxy ==
    [kind |-> "none", id |-> NoAttr, list |-> NoAttr, title |-> NoAttr,
     archived |-> FALSE, members |-> <<>>, cards_count |-> NoAttr]

\* The representations the server may hold of the resource a proxy names.
Resources(list) ==
    [title : Titles, archived : BOOLEAN, members : {<<>>, <<"u1">>},
     list : {list}, due : {Absent}, cards_count : CardCounts]

NoResource ==
    [title |-> "", archived |-> FALSE, members |-> <<>>, list |-> NoAttr,
     due |-> Absent, cards_count |-> "0"]

\* The arguments of a proxy method; the ones a method does not take are Absent.
NoFlags == [isAdmin |-> FALSE, isNoComments |-> FALSE, isCommentOnly |-> FALSE]

NoArgs ==
    [title |-> Absent, description |-> Absent, position |-> Absent,
     target |-> Absent, user |-> Absent, due |-> Absent, role |-> Absent,
     flags |-> NoFlags]

NoCall == [name |-> "none", pc |-> "idle", args |-> NoArgs]

NoResult == [kind |-> "none", exc |-> ""]

ProxyIdle ==
    /\ px = NoProxy
    /\ srv = NoResource
    /\ pcall = NoCall
    /\ plog = <<>>
    /\ pres = NoResult
    /\ pentry = NoProxy
    /\ pctor = NoAttr

(***************************************************************************)
(* Values of the equality layer.  hash() of a str differs from process to  *)
(* process (PYTHONHASHSEED); hash() of a small int is the int, except that *)
(* hash(-1) is -2.  Hashes are kept to HashBits bits, two's complement.    *)
(***************************************************************************)
HashBits == 3

\* The ids two compared proxies may carry: whatever the constructor was given.
EqIds == {-2, -1, 0, 1}

\* The hashes the class names may have in one process.
ClassHashes == {-2, 2}

NoOperand == [kind |-> "none", id |-> 0, title |-> ""]

EqIdle ==
    /\ str_hash = [k \in Kinds |-> 0]
    /\ lhs = NoOperand
    /\ rhs = NoOperand
    /\ eq = "none"

(***************************************************************************)
(* Values of the card-construction layer.                                  *)
(***************************************************************************)
\* The keys WekanCard.__init__ reads by data[key], in the order it reads them.
RequiredKeys ==
    <<"title", "members", "labelIds", "customFields", "sort", "swimlaneId",
      "cardNumber", "archived", "parentId", "createdAt", "modifiedAt",
      "dateLastActivity", "description", "requestedBy", "assignedBy",
      "assignees", "spentTime", "isOvertime", "subtaskSort", "linkedId">>

Required == {RequiredKeys[i] : i \in 1..Len(RequiredKeys)}

\* The keys read inside try/except KeyError, dueAt apart.
OptionalKeys ==
    {"coverId", "vote", "poker", "targetId_gantt", "linkType_gantt", "linkId_gantt"}

\* How many required keys a representation may lack.
MaxMissing == 1

\* The values dueAt may have: null, the empty string, or a date string.
DueNull == [kind |-> "null", date |-> NoDate]

DueValues ==
    {DueNull, [kind |-> "empty", date |-> NoDate]}
        \cup {[kind |-> "date", date |-> d] : d \in [wall : {1}, zone : Zones]}

\* due_at = None.
NoDue == [none |-> TRUE, instant |-> 0]

NoCardData == [keys |-> {}, dueAt |-> DueNull]

NoCard ==
    [kind |-> "none", exc |-> "", key |-> "",
     fields |-> [k \in OptionalKeys |-> Absent], due_at |-> NoDue]

CardIdle ==
    /\ card_data = NoCardData
    /\ card = NoCard

(***************************************************************************)
(* Values of the configuration layer.                                      *)
(***************************************************************************)
\* The field names: the keys WEKAN_BASE_URL .. WEKAN_TIMEOUT, prefix removed
\* and in lower case.
ConfigKeys == {"base_url", "username", "password", "token", "timeout"}

\* A variable that is not in the environment, a key the file has no line for.
Unset == "<unset>"

DefaultBaseUrl == "http://localhost:3000"

DefaultTimeout == 30000

NoEnviron == [k \in ConfigKeys |-> Unset]

NoConfigFile == [exists |-> FALSE, lines |-> [k \in ConfigKeys |-> Unset]]

NoConfig ==
    [kind |-> "none", exc |-> "", base_url |-> "", username |-> "",
     password |-> "", token |-> "", timeout |-> 0]

ConfigIdle ==
    /\ environ = NoEnviron
    /\ config_file = NoConfigFile
    /\ config = NoConfig

(***************************************************************************)
(* Values of the checklist-item layer.                                     *)
(***************************************************************************)
NoItem ==
    [id |-> NoAttr, checklist |-> NoAttr, card |-> NoAttr, board |-> NoAttr,
     title |-> NoAttr, is_finished |-> FALSE]

ItemIdle ==
    /\ item = NoItem
    /\ icall = "none"
    /\ ilog = <<>>
    /\ ires = NoResult

(***************************************************************************)
(* Values of the edit-arguments layer.  An argument is None or a value of  *)
(* its type.                                                               *)
(***************************************************************************)
None(v) == [none |-> TRUE, v |-> v]

Some(v) == [none |-> FALSE, v |-> v]

NoEditArgs ==
    [title |-> None(""), description |-> None(""), is_overtime |-> None(FALSE),
     spent_time |-> None(0), members |-> None(<<>>)]

EditIdle ==
    /\ edit_args = NoEditArgs
    /\ edit_sent = <<>>

(***************************************************************************)
(* Values of the board-listing layer.                                      *)
(***************************************************************************)
NoListing == [kind |-> "none", exc |-> "", boards |-> <<>>]

\* The boards on the server, each with the title it has at first.
BoardTitle == [b1 |-> "Alpha", b2 |-> "Beta", b3 |-> "Alpha two"]

\* No list_boards call is under way.
NotListing == [pc |-> "idle", regex_filter |-> "", todo |-> <<>>, built |-> <<>>, requests |-> <<>>]

BoardsIdle ==
    /\ public_boards = <<>>
    /\ private_boards = <<>>
    /\ board_titles = BoardTitle
    /\ listing = NotListing
    /\ listed = NoListing

(***************************************************************************)
(* Values of the shared-card layer.                                        *)
(***************************************************************************)
\* How many proxies of the card there are.
MaxProxies == 2

Replicas == 1..MaxProxies

\* A proxy fresh from its constructor while the card has no members.
NewReplica == [members |-> <<>>, pc |-> "idle", user |-> "", payload |-> <<>>]

SharedIdle ==
    /\ replicas = [p \in Replicas |-> NewReplica]
    /\ card_members = <<>>
    /\ assigned_users = {}


(***************************************************************************)
(* Values of the navigation shell.                                         *)
(***************************************************************************)
\* NavigationContext.__init__: the root level, nothing selected.
NoSelection == [level |-> "ROOT", board |-> Absent, list_obj |-> Absent, card |-> Absent]

\* What the server holds when the session starts: the boards of the two
\* board collections, the lists of every board, the cards of every list, and
\* how many lists were created and how many changes other clients made.
StartRemote ==
    [public |-> <<>>,
     boards |-> <<"b1", "b2">>,
     lists |-> [b1 |-> <<"l1", "l2">>, b2 |-> <<>>],
     cards |-> [l1 |-> <<"c1", "c2">>, l2 |-> <<>>, l3 |-> <<>>, l4 |-> <<>>],
     created |-> 0,
     changes |-> 0]

NoCommand == [cmd |-> "", args |-> <<>>]

NoNavCall == [name |-> "", self |-> "", arg |-> Absent]

\* The session waits at its prompt for a command line.
AtPrompt ==
    [pc |-> "prompt", phase |-> "", call |-> NoNavCall, reqs |-> <<>>, items |-> <<>>,
     walk |-> <<>>, target |-> Absent]

NavIdle ==
    /\ nav = NoSelection
    /\ remote = StartRemote
    /\ command = NoCommand
    /\ proxy_calls = <<>>
    /\ printed = <<>>
    /\ turn = AtPrompt

\* The layers besides the client, the proxies and equality are idle.
RestIdle ==
    /\ CardIdle
    /\ ConfigIdle
    /\ ItemIdle
    /\ EditIdle
    /\ BoardsIdle
    /\ SharedIdle
    /\ NavIdle

ClientIdle ==
    /\ username = ""
    /\ password = ""
    /\ user_id = NoAttr
    /\ token = NoAttr
    /\ token_expire_date = NoDate
    /\ now = 0
    /\ stack = <<>>
    /\ sent = <<>>
    /\ logins = 0
    /\ op = "none"
    /\ entry = [session |-> NoSession, issued |-> <<>>, expired |-> FALSE]
    /\ outcome = NoOutcome
    /\ response = NoResponse
    /\ issued = <<>>

Init ==
    /\ ClientIdle
    /\ tz \in {-1, 0, 1}
    /\ ProxyIdle
    /\ EqIdle
    /\ RestIdle

\* Time passes.
Tick ==
    /\ now < MaxTime
    /\ now' = now + 1
    /\ UNCHANGED <<username, password, user_id, token, token_expire_date, tz,
                   stack, sent, logins, op, entry, outcome, response, issued>>
    /\ UNCHANGED notClient

\* WekanClient(base_url, u, p), lines 32-36, up to the login's fetch_json.
Construct(u, p) ==
    /\ stack = <<>>
    /\ token_expire_date = NoDate
    /\ username' = u
    /\ password' = p
    /\ stack' = <<Frame(LoginPath, "POST", Credentials(u, p), "__init__")>>
    /\ sent' = <<>>
    /\ logins' = 1
    /\ op' = "__init__"
    /\ entry' = [session |-> Session, issued |-> issued, expired |-> FALSE]
    /\ outcome' = NoOutcome
    /\ response' = NoResponse
    /\ UNCHANGED <<user_id, token, token_expire_date, now, tz, issued>>
    /\ UNCHANGED notClient

\* A caller of the constructed client calls fetch_json(uri, method).
Call(uri, method) ==
    /\ stack = <<>>
    /\ token_expire_date # NoDate
    /\ stack' = <<Frame(uri, method, EmptyPayload, "caller")>>
    /\ sent' = <<>>
    /\ logins' = 0
    /\ op' = "fetch_json"
    /\ entry' = [session |-> Session, issued |-> issued, expired |-> FALSE]
    /\ outcome' = NoOutcome
    /\ response' = NoResponse
    /\ UNCHANGED <<username, password, user_id, token, token_expire_date, now, tz, issued>>
    /\ UNCHANGED notClient

(***************************************************************************)
(* The frame on top of s ends with result r.  A caller's frame ends the    *)
(* operation.  A login frame goes on in __get_api_token (line 109) and     *)
(* __renew_login_data (line 42): a success stores the session and, in a    *)
(* renewal, lets the renewing frame go on at line 148; an exception passes *)
(* the renewing frame's try (lines 145-151), which catches AttributeError  *)
(* alone.  The result is the stack, the session, the operation's outcome   *)
(* (NoOutcome while it goes on) and the login response unpacked, if any.   *)
(***************************************************************************)
\* Variant: the try of lines 145-151 catches every exception.
Caught_Any(exc) == TRUE

\* Line 149: except AttributeError.
Caught(exc) == exc = "AttributeError"

RECURSIVE Unwind(_, _, _)
Unwind(s, r, sess) ==
    LET f == s[Len(s)]
        rest == SubSeq(s, 1, Len(s) - 1)
        t == get_api_token(r)
        parent == rest[Len(rest)]
        resume(auth) ==
            SubSeq(rest, 1, Len(rest) - 1)
                \o <<[parent EXCEPT !.authorization = auth, !.pc = "send"]>>
    IN  IF f.from = "caller"
        THEN [stack |-> <<>>, session |-> sess, outcome |-> r, unpacked |-> <<>>]
        ELSE IF t.kind = "raise"
        THEN IF f.from = "__init__"
             THEN [stack |-> <<>>, session |-> sess, outcome |-> t, unpacked |-> <<>>]
             ELSE IF Caught(t.exc)
             THEN [stack |-> resume(parent.authorization), session |-> sess,
                   outcome |-> NoOutcome, unpacked |-> <<>>]
             ELSE Unwind(rest, t, sess)
        ELSE LET new == renew_login_data(t.value.body)
             IN  IF f.from = "__init__"
                 THEN [stack |-> <<>>, session |-> new,
                       outcome |-> Return(NoValue), unpacked |-> <<t.value.body>>]
                 ELSE [stack |-> resume(Bearer(new.token)), session |-> new,
                       outcome |-> NoOutcome, unpacked |-> <<t.value.body>>]

\* The top frame ends with result r.
Finish(r) ==
    LET u == Unwind(stack, r, Session)
    IN  /\ stack' = u.stack
        /\ user_id' = u.session.user_id
        /\ token' = u.session.token
        /\ token_expire_date' = u.session.token_expire_date
        /\ outcome' = u.outcome
        /\ issued' = issued \o u.unpacked

\* fetch_json, lines 145-151: the expiry check and the Authorization header.
CheckToken ==
    /\ stack # <<>>
    /\ Top.pc = "check"
    /\ IF token_expire_date = NoDate
       THEN \* AttributeError, caught at line 149: no Authorization header
            /\ stack' = Below \o <<[Top EXCEPT !.pc = "send"]>>
            /\ UNCHANGED <<user_id, token, token_expire_date, outcome, issued, logins, entry>>
       ELSE IF is_api_token_expired(token_expire_date, now, tz)
       THEN /\ entry' = IF Len(stack) = 1 THEN [entry EXCEPT !.expired = TRUE] ELSE entry
            /\ IF Len(stack) < MaxDepth
               THEN \* line 147: __renew_login_data -> __get_api_token -> fetch_json
                    /\ stack' = stack \o <<LoginFrame("fetch_json")>>
                    /\ logins' = logins + 1
                    /\ UNCHANGED <<user_id, token, token_expire_date, outcome, issued>>
               ELSE \* the interpreter's recursion limit
                    /\ Finish(Raise("RecursionError", "maximum recursion depth exceeded",
                                    NoBody, NoStatus))
                    /\ UNCHANGED logins
       ELSE \* line 148
            /\ stack' = Below \o <<[Top EXCEPT !.authorization = Bearer(token), !.pc = "send"]>>
            /\ UNCHANGED <<user_id, token, token_expire_date, outcome, issued, logins, entry>>
    /\ UNCHANGED <<username, password, now, tz, sent, op, response>>
    /\ UNCHANGED notClient

\* fetch_json, lines 153-155: the request is handed to the transport.
Dispatch ==
    /\ stack # <<>>
    /\ Top.pc = "send"
    /\ sent' = Append(sent, Request(Top))
    /\ stack' = Below \o <<[Top EXCEPT !.pc = "wait"]>>
    /\ UNCHANGED <<username, password, user_id, token, token_expire_date, now, tz,
                   logins, op, entry, outcome, response, issued>>
    /\ UNCHANGED notClient

\* The transport returns the server's response; fetch_json, lines 156-192.
Respond(status, body) ==
    /\ stack # <<>>
    /\ Top.pc = "wait"
    /\ body \in ServerBodies(Top.uri)
    /\ response' = [status |-> status, body |-> body, error |-> ""]
    /\ Finish(HandleResponse(Top.method, status, body))
    /\ UNCHANGED <<username, password, now, tz, sent, logins, op, entry>>
    /\ UNCHANGED notClient

TransportErrors == {"ConnectionError", "Timeout"}

\* A transport failure wrapped into the client's own error class.
TransportRaise_Wrapped(e) == Raise("WekanAPIError", "API error: ", NoBody, NoStatus)

\* Lines 153-155 stand in no try block: the transport's exception leaves as it is.
TransportRaise(e) == Raise(e, "", NoBody, NoStatus)

\* requests.request raises: nothing in fetch_json catches it.
TransportFail(e) ==
    /\ stack # <<>>
    /\ Top.pc = "wait"
    /\ response' = [NoResponse EXCEPT !.error = e]
    /\ Finish(TransportRaise(e))
    /\ UNCHANGED <<username, password, now, tz, sent, logins, op, entry>>
    /\ UNCHANGED notClient

Next ==
    \/ Tick
    \/ \E u \in Usernames, p \in Passwords : Construct(u, p)
    \/ \E uri \in Paths, m \in Methods : Call(uri, m)
    \/ CheckToken
    \/ Dispatch
    \/ \E st \in Statuses, b \in ErrorBodies \cup LoginBodies : Respond(st, b)
    \/ \E e \in TransportErrors : TransportFail(e)

Spec == Init /\ [][Next]_vars

(***************************************************************************)
(* Properties of the client.                                               *)
(***************************************************************************)
Done == stack = <<>> /\ outcome.kind # "none"

LastSent == sent[Len(sent)]

Is2xx(status) == status >= 200 /\ status < 300

\* C1: a fetch_json call that finds the stored token expired enters the
\* login (__get_api_token) at most once.
C1_LoginEnteredAtMostOnce ==
    (op = "fetch_json" /\ entry.expired) => logins <= 1

\* C2: a fetch_json call that finds the stored token expired ends either
\* with the login's error, or after one login whose response replaced the
\* session and after the original request was sent with the new token.
C2_ExpiredCallRenewsThenSends ==
    (op = "fetch_json" /\ entry.expired /\ Done) =>
        /\ logins = 1
        /\ Len(sent) >= 1
        /\ sent[1].uri = LoginPath
        /\ \/ /\ Len(sent) = 1
              /\ outcome.kind = "raise"
              /\ Session = entry.session
           \/ /\ Len(sent) = 2
              /\ Len(issued) = Len(entry.issued) + 1
              /\ sent[2].uri # LoginPath
              /\ sent[2].authorization.credentials = issued[Len(issued)].token

\* C3: the stored (user_id, token, token_expire_date) is unset or is the
\* (id, token, tokenExpires) of the latest login response unpacked, and an
\* operation that raised without unpacking a login response left it as it was.
C3_SessionFromOneLogin ==
    /\ \/ Session = NoSession /\ issued = <<>>
       \/ /\ issued # <<>>
          /\ user_id = issued[Len(issued)].id
          /\ token = issued[Len(issued)].token
          /\ token_expire_date = issued[Len(issued)].tokenExpires
    /\ (Done /\ outcome.kind = "raise" /\ issued = entry.issued) => Session = entry.session

\* A fetch_json call on a constructed client failed and the session is whole.
C3_Witness ==
    /\ op = "fetch_json"
    /\ Done
    /\ outcome.kind = "raise"
    /\ entry.expired
    /\ issued # <<>>
    /\ token = issued[1].token

\* C4: a response with status 401 (404) ends the operation with
\* WekanAuthenticationError (WekanNotFoundError) carrying that status and
\* the response text, whatever the method and the body.
C4_AuthAndNotFound ==
    (response.status \in {401, 404}) =>
        /\ Done
        /\ outcome.kind = "raise"
        /\ outcome.exc = (IF response.status = 401
                          THEN "WekanAuthenticationError" ELSE "WekanNotFoundError")
        /\ outcome.status_code = response.status
        /\ outcome.text = response.body

\* A 401 whose body carries the conflict reason was answered to a DELETE.
C4_Witness ==
    /\ op = "fetch_json"
    /\ Done
    /\ response.status = 401
    /\ response.body.reason = "Username already exists"
    /\ LastSent.method = "DELETE"
    /\ outcome.exc = "WekanAuthenticationError"

\* C5: a response whose status is neither 2xx nor 401 nor 404 ends a
\* caller's fetch_json with UsernameAlreadyExists when its reason contains the marker
\* and with the generic WekanAPIError (status, raw text) otherwise.
C5_OtherStatusRaisesTaxonomy ==
    (/\ op = "fetch_json"
     /\ response.status # NoStatus
     /\ ~Is2xx(response.status)
     /\ response.status \notin {401, 404}) =>
        /\ Done
        /\ outcome.kind = "raise"
        /\ IF response.body.shape = "object" /\ ContainsUsernameExists(response.body.reason)
           THEN outcome.exc = "UsernameAlreadyExists"
           ELSE /\ outcome.exc = "WekanAPIError"
                /\ outcome.status_code = response.status
                /\ outcome.text = response.body

\* C6: status 500 with a non-JSON body answered to a DELETE makes fetch_json
\* return the raw text.
C6_Delete500ReturnsText ==
    (/\ response.status = 500
     /\ response.body.shape = "text"
     /\ LastSent.method = "DELETE") =>
        /\ Done
        /\ outcome = Return(TextValue(response.body))

\* C7: an error of the taxonomy raised because of a received response has
\* status_code equal to the response's status.
C7_StatusCodeCarried ==
    (Done /\ outcome.kind = "raise" /\ outcome.exc \in Taxonomy /\ response.status # NoStatus) =>
        outcome.status_code = response.status

\* C8: the login request of construction carries no Authorization header;
\* a request dispatched by a constructed client carries Bearer <token> with
\* the session's token; both carry the JSON content type.
C8_AuthorizationHeader ==
    (stack # <<>> /\ Top.pc = "wait") =>
        /\ LastSent.content_type = "application/json; charset=utf-8"
        /\ LastSent.authorization =
               (IF op = "__init__"
                THEN [scheme |-> "", credentials |-> ""]
                ELSE [scheme |-> "Bearer", credentials |-> token])

\* A constructed client has a request with the transport.
C8_Witness ==
    /\ op = "fetch_json"
    /\ stack # <<>>
    /\ Top.pc = "wait"
    /\ LastSent.uri # LoginPath
    /\ token = "t2"

\* C9: construction issues one request, POST /users/login with the given
\* username and password; a 2xx login response makes it succeed, a success
\* stores the response's id, token and tokenExpires, a failure stores nothing.
C9_ConstructionLogsIn ==
    (op = "__init__") =>
        /\ Len(sent) <= 1
        /\ \A i \in 1..Len(sent) :
              /\ sent[i].method = "POST"
              /\ sent[i].uri = "/users/login"
              /\ sent[i].data = [username |-> username, password |-> password]
        /\ Done =>
              /\ Len(sent) = 1
              /\ (Is2xx(response.status) /\ response.body.keys = LoginKeys)
                    => outcome.kind = "return"
              /\ outcome.kind = "return" =>
                    /\ user_id = response.body.id
                    /\ token = response.body.token
                    /\ token_expire_date = response.body.tokenExpires
                    /\ token_expire_date # NoDate
              /\ outcome.kind = "raise" => Session = NoSession

\* Construction succeeded for bob.
C9_Witness ==
    /\ op = "__init__"
    /\ Done
    /\ outcome.kind = "return"
    /\ username = "bob"
    /\ token = "t2"
    /\ Len(sent) = 1

\* C10: the expiry check is true exactly when the stored expiry is strictly
\* before the true UTC instant, whatever the host's time zone.
C10_ExpiredIffBeforeUtcNow ==
    (stack # <<>> /\ Top.pc = "check" /\ token_expire_date # NoDate) =>
        (is_api_token_expired(token_expire_date, now, tz)
            <=> parse_iso_date(token_expire_date) < now)

\* C11: a 2xx response with an empty body makes fetch_json return {},
\* whatever the 2xx status and the method.
C11_Empty2xxReturnsEmptyMapping ==
    (/\ op = "fetch_json"
     /\ Is2xx(response.status)
     /\ response.body.shape = "empty") =>
        /\ Done
        /\ outcome = Return(JsonValue(EmptyObject))

\* C12: a 2xx response whose body is not empty and is no JSON makes
\* fetch_json raise the generic WekanAPIError, whatever the method; the
\* text is not returned.
C12_Undecodable2xxRaises ==
    (/\ op = "fetch_json"
     /\ Is2xx(response.status)
     /\ response.body.shape = "text") =>
        /\ Done
        /\ outcome.kind = "raise"
        /\ outcome.exc = "WekanAPIError"
        /\ outcome.value = NoValue

\* A DELETE was answered 202 with undecodable text.
C12_Witness ==
    /\ op = "fetch_json"
    /\ Done
    /\ response.status = 202
    /\ response.body.shape = "text"
    /\ LastSent.method = "DELETE"
    /\ outcome.exc = "WekanAPIError"

\* C13: an exception the transport raises ends the operation with that same
\* exception, and the session is as the operation found it.
C13_TransportErrorUnwrapped ==
    (response.error # "") =>
        /\ Done
        /\ outcome.kind = "raise"
        /\ outcome.exc = response.error
        /\ outcome.exc \notin Taxonomy
        /\ Session = entry.session

\* A caller's fetch_json met a timeout.
C13_Witness ==
    /\ op = "fetch_json"
    /\ Done
    /\ response.error = "Timeout"
    /\ outcome.exc = "Timeout"
    /\ token # NoAttr

\* C23: a fetch_json call whose expiry check found the token expired hands
\* a request for a path other than the login path to the transport only after
\* a login of that call has succeeded, and then with the token that login
\* stored.
C23_ExpiredSendsNothingBeforeLogin ==
    (op = "fetch_json" /\ entry.expired) =>
        \A i \in 1..Len(sent) :
            sent[i].uri # "/users/login" =>
                /\ Len(issued) > Len(entry.issued)
                /\ token = issued[Len(issued)].token
                /\ sent[i].authorization = [scheme |-> "Bearer", credentials |-> token]

\* A call that found the token expired has ended; no request had gone out.
C23_Witness ==
    /\ op = "fetch_json"
    /\ entry.expired
    /\ Done
    /\ outcome.exc = "RecursionError"
    /\ sent = <<>>

(***************************************************************************)
(* The proxy layer.                                                        *)
(***************************************************************************)
\* What a fetch_json call of a proxy may raise ("" stands for a call that returns).
CallErrors == {"WekanAPIError", "ConnectionError"}

\* Python truthiness of a str argument.
Truthy(x) == x \notin {Absent, ""}

\* A request payload: the keys it has and their values.
Payload(keys, title, description, sort, listId, dueAt, members) ==
    [keys |-> keys,
     title |-> IF "title" \in keys THEN title ELSE Absent,
     description |-> IF "description" \in keys THEN description ELSE Absent,
     sort |-> IF "sort" \in keys THEN sort ELSE Absent,
     listId |-> IF "listId" \in keys THEN listId ELSE Absent,
     dueAt |-> IF "dueAt" \in keys THEN dueAt ELSE Absent,
     members |-> IF "members" \in keys THEN members ELSE <<>>,
     action |-> Absent, flags |-> NoFlags, authorId |-> Absent, swimlaneId |-> Absent]

NoPayload == Payload({}, Absent, Absent, Absent, Absent, Absent, <<>>)

\* Board.update: a key for every truthy argument.
BoardUpdatePayload(a) ==
    Payload({k \in {"title", "description"} : Truthy(a[k])},
            a.title, a.description, Absent, Absent, Absent, <<>>)

\* WekanList.update: a key for every argument that is not None.
ListUpdatePayload(a) ==
    Payload((IF a.title # Absent THEN {"title"} ELSE {})
                \cup (IF a.position # Absent THEN {"sort"} ELSE {}),
            a.title, Absent, a.position, Absent, Absent, <<>>)

\* WekanCard.edit: a key for every truthy argument.
EditPayload(title, new_list, description, due_at, members) ==
    Payload((IF Truthy(title) THEN {"title"} ELSE {})
                \cup (IF Truthy(new_list) THEN {"listId"} ELSE {})
                \cup (IF Truthy(description) THEN {"description"} ELSE {})
                \cup (IF Truthy(due_at) THEN {"dueAt"} ELSE {})
                \cup (IF members # <<>> THEN {"members"} ELSE {}),
            title, description, Absent, new_list, isoformat(due_at), members)

\* WekanCard.assign_member: the members the proxy holds, with user_id appended
\* when it is not among them.
member_ids(members, uid) ==
    IF \E i \in 1..Len(members) : members[i] = uid
    THEN members
    ELSE Append(members, uid)

\* Board.add_member: the role as three flags ("normal" sets none).
AddMemberPayload(role) ==
    [NoPayload EXCEPT !.keys = {"action", "isAdmin", "isNoComments", "isCommentOnly"},
                      !.action = "add",
                      !.flags = [isAdmin |-> role = "admin",
                                 isNoComments |-> role = "no-comments",
                                 isCommentOnly |-> role = "comment-only"]]

RemoveMemberPayload == [NoPayload EXCEPT !.keys = {"action"}, !.action = "remove"]

PermissionPayload(flags) ==
    [NoPayload EXCEPT !.keys = {"isAdmin", "isNoComments", "isCommentOnly"}, !.flags = flags]

\* WekanList.create_card: description "" and members [] are the defaults;
\* the author is the client's user, the swimlane id is the board's id.
CreateCardPayload(title) ==
    [NoPayload EXCEPT !.keys = {"title", "authorId", "members", "description", "swimlaneId"},
                      !.title = title, !.description = "",
                      !.authorId = "client.user_id", !.swimlaneId = "board.id"]

\* The payload of the mutating call of method name on proxy p.
MutatePayload(p, name, a) ==
    CASE name = "update" /\ p.kind = "Board" -> BoardUpdatePayload(a)
      [] name = "update" /\ p.kind = "WekanList" -> ListUpdatePayload(a)
      [] name = "update" /\ p.kind = "WekanCard" ->
            EditPayload(a.title, Absent, a.description, Absent, <<>>)
      [] name = "edit" -> EditPayload(a.title, Absent, a.description, Absent, <<>>)
      [] name = "move_to_list" -> EditPayload(Absent, a.target, Absent, Absent, <<>>)
      [] name = "set_due_date" -> EditPayload(Absent, Absent, Absent, a.due, <<>>)
      [] name = "assign_member" ->
            EditPayload(Absent, Absent, Absent, Absent, member_ids(p.members, a.user))
      [] name = "add_member" -> AddMemberPayload(a.role)
      [] name = "remove_member" -> RemoveMemberPayload
      [] name = "change_member_permission" -> PermissionPayload(a.flags)
      [] name = "create_card" -> CreateCardPayload(a.title)
      [] OTHER -> NoPayload

\* The path of a request: the resource of proxy p, then a suffix.
ProxyPath(p, suffix) == [kind |-> p.kind, id |-> p.id, list |-> p.list, suffix |-> suffix]

MutateMethod(name) ==
    CASE name \in {"archive", "restore", "add_member", "remove_member",
                   "change_member_permission", "create_card"} -> "POST"
      [] name = "delete" -> "DELETE"
      [] OTHER -> "PUT"

\* The suffixes that name a board member: f"/members/{user_id}..." for the
\* user ids of MemberIds.
MemberSuffix(name, uid) ==
    CASE name = "add_member" -> (IF uid = "u1" THEN "/members/u1/add" ELSE "/members/?/add")
      [] name = "remove_member" ->
            (IF uid = "u1" THEN "/members/u1/remove" ELSE "/members/?/remove")
      [] OTHER -> (IF uid = "u1" THEN "/members/u1" ELSE "/members/?")

\* The user id a member suffix names.
MemberOf(suffix) ==
    IF suffix \in {"/members/u1/add", "/members/u1/remove", "/members/u1"} THEN "u1" ELSE "?"

MutateSuffix(kind, name, a) ==
    CASE name = "archive" -> "/archive"
      [] name = "restore" /\ kind = "Board" -> "/restore"
      [] name = "restore" /\ kind = "WekanList" -> "/unarchive"
      [] name \in {"add_member", "remove_member", "change_member_permission"} ->
            MemberSuffix(name, a.user)
      [] name = "create_card" -> "/cards"
      [] OTHER -> ""

\* The methods of each kind of proxy.
Methods_(kind) ==
    CASE kind = "WekanCard" ->
            {"update", "move_to_list", "set_due_date", "assign_member", "edit", "delete"}
      [] kind = "Board" ->
            {"update", "archive", "restore", "delete", "add_member", "remove_member",
             "change_member_permission"}
      [] OTHER -> {"update", "archive", "restore", "delete", "create_card"}

TitleArgs == {Absent, "", "B"}

\* The roles handed to add_member.
Roles == {"normal", "admin"}

\* The arguments a caller may give a method.
ArgSets(kind, name) ==
    CASE name = "update" /\ kind = "WekanList" ->
            {[NoArgs EXCEPT !.title = t, !.position = q] :
                t \in TitleArgs, q \in {Absent, "0"}}
      [] name = "update" /\ kind # "WekanList" ->
            {[NoArgs EXCEPT !.title = t, !.description = d] :
                t \in TitleArgs, d \in {Absent, "D"}}
      [] name = "edit" -> {[NoArgs EXCEPT !.title = t] : t \in TitleArgs}
      [] name = "move_to_list" -> {[NoArgs EXCEPT !.target = l] : l \in ListIds}
      [] name = "set_due_date" -> {[NoArgs EXCEPT !.due = d] : d \in Dues}
      [] name = "assign_member" -> {[NoArgs EXCEPT !.user = u] : u \in MemberIds}
      [] name = "add_member" ->
            {[NoArgs EXCEPT !.user = u, !.role = r] : u \in MemberIds, r \in Roles}
      [] name = "remove_member" -> {[NoArgs EXCEPT !.user = u] : u \in MemberIds}
      [] name = "change_member_permission" ->
            {[NoArgs EXCEPT !.user = u, !.flags = [NoFlags EXCEPT !.isAdmin = f]] :
                u \in MemberIds, f \in BOOLEAN}
      [] name = "create_card" -> {[NoArgs EXCEPT !.title = "B"]}
      [] OTHER -> {NoArgs}

\* Board.update and WekanList.update send nothing when the payload is empty.
SendsNothing(p, name, a) ==
    /\ name = "update"
    /\ p.kind \in {"Board", "WekanList"}
    /\ MutatePayload(p, name, a).keys = {}

\* The methods that build a proxy of the resource their call created.
Constructs(name) == name = "create_card"

\* The methods that re-run __init__ after their mutating call.
Refetches(name) == name \in {"update", "move_to_list", "set_due_date", "assign_member"}

\* Variant: the try of WekanList.__init__ also covers its first request.
Swallowed_Init(kind, step) == kind = "WekanList" /\ step \in {"init", "count"}

\* Variant: a failed mutating request is caught as well.
Swallowed_Mutate(kind, step) == step = "mutate" \/ (kind = "WekanList" /\ step = "count")

\* The only try/except around a fetch_json call of a proxy: the cards_count
\* request of WekanList.__init__.
Swallowed(kind, step) == kind = "WekanList" /\ step = "count"

\* Variant: only WekanBase.__init__ runs.
InitId_BaseOnly(id_arg) == NoAttr

\* WekanBase.__init__ sets id to None, the subclass then stores its argument.
InitId(id_arg) == id_arg

\* Variant: the title is not copied.
FieldsFrom_KeepTitle(p, data) ==
    [p EXCEPT !.archived = data.archived,
              !.members = IF p.kind = "WekanList" THEN p.members ELSE data.members]

\* The fields __init__ copies from the representation the GET returned.
FieldsFrom(p, data) ==
    [p EXCEPT !.title = data.title,
              !.archived = data.archived,
              !.members = IF p.kind = "WekanList" THEN p.members ELSE data.members]

\* Variant: archive and restore do not assign the flag.
AfterMutate_FlagKept(p, name) == p

\* What a method does to the proxy once its mutating call has returned.
AfterMutate(p, name) ==
    CASE name = "archive" -> [p EXCEPT !.archived = TRUE]
      [] name = "restore" -> [p EXCEPT !.archived = FALSE]
      [] OTHER -> p

\* The numeral after a cards_count.
NextCount(c) == CASE c = "3" -> "4" [] c = "4" -> "5" [] OTHER -> "6"

\* The cards create_card has added to a list whose count the server gives.
CardsCreated(c) == CASE c = "3" -> 0 [] c = "4" -> 1 [] c = "5" -> 2 [] OTHER -> 3

\* How many cards are created in one list.
MaxNewCards == 1

\* What an accepted request does to the resource on the server.
Apply(s, call) ==
    CASE call.method = "PUT" ->
            [s EXCEPT !.title = IF "title" \in call.payload.keys
                                THEN call.payload.title ELSE @,
                      !.list = IF "listId" \in call.payload.keys
                               THEN call.payload.listId ELSE @,
                      !.due = IF "dueAt" \in call.payload.keys
                              THEN call.payload.dueAt ELSE @,
                      !.members = IF "members" \in call.payload.keys
                                  THEN call.payload.members ELSE @]
      [] call.method = "POST" /\ call.path.suffix = "/archive" ->
            [s EXCEPT !.archived = TRUE]
      [] call.method = "POST" /\ call.path.suffix \in {"/restore", "/unarchive"} ->
            [s EXCEPT !.archived = FALSE]
      [] call.method = "POST" /\ call.payload.action = "add" ->
            [s EXCEPT !.members = member_ids(@, MemberOf(call.path.suffix))]
      [] call.method = "POST" /\ call.payload.action = "remove" ->
            [s EXCEPT !.members = SelectSeq(@, LAMBDA m : m # MemberOf(call.path.suffix))]
      [] call.method = "POST" /\ call.path.suffix = "/cards" ->
            [s EXCEPT !.cards_count = NextCount(@)]
      [] OTHER -> s

HttpCall(method, path, payload, err) ==
    [method |-> method, path |-> path, payload |-> payload, error |-> err]

PReturn == [kind |-> "return", exc |-> ""]

PRaise(err) == [kind |-> "raise", exc |-> err]

\* A caller constructs a proxy for a resource; __init__ starts.
PNew(kind, id, list, s0) ==
    /\ pcall.pc = "idle"
    /\ px.kind = "none"
    /\ px' = [NoProxy EXCEPT !.kind = kind, !.id = id, !.list = list]
    /\ srv' = s0
    /\ pcall' = [name |-> "__init__", pc |-> "init", args |-> NoArgs]
    /\ plog' = <<>>
    /\ pres' = NoResult
    /\ pentry' = px'
    /\ pctor' = id
    /\ UNCHANGED notProxy

\* A caller calls a method of the proxy it holds.
PInvoke(name, a) ==
    /\ pcall.pc = "idle"
    /\ px.kind # "none"
    /\ name \in Methods_(px.kind)
    /\ a \in ArgSets(px.kind, name)
    /\ name = "create_card" => CardsCreated(srv.cards_count) < MaxNewCards
    /\ pentry' = px
    /\ plog' = <<>>
    /\ IF SendsNothing(px, name, a)
       THEN /\ pcall' = [name |-> name, pc |-> "idle", args |-> a]
            /\ pres' = PReturn
       ELSE /\ pcall' = [name |-> name, pc |-> "mutate", args |-> a]
            /\ pres' = NoResult
    /\ UNCHANGED <<px, srv, pctor>>
    /\ UNCHANGED notProxy

\* The mutating request of the method: it returns (err = "") or raises err.
PMutate(err) ==
    /\ pcall.pc = "mutate"
    /\ LET call == HttpCall(MutateMethod(pcall.name),
                            ProxyPath(px, MutateSuffix(px.kind, pcall.name, pcall.args)),
                            MutatePayload(px, pcall.name, pcall.args), err)
       IN /\ plog' = Append(plog, call)
          /\ IF err # "" /\ ~Swallowed(px.kind, "mutate")
             THEN /\ pres' = PRaise(err)
                  /\ pcall' = [pcall EXCEPT !.pc = "idle"]
                  /\ UNCHANGED <<px, srv>>
             ELSE /\ srv' = IF err = "" THEN Apply(srv, call) ELSE srv
                  /\ px' = AfterMutate(px, pcall.name)
                  /\ IF Refetches(pcall.name) \/ Constructs(pcall.name)
                     THEN /\ pcall' = [pcall EXCEPT !.pc = IF Constructs(pcall.name)
                                                           THEN "made" ELSE "init"]
                          /\ pres' = pres
                     ELSE /\ pcall' = [pcall EXCEPT !.pc = "idle"]
                          /\ pres' = PReturn
    /\ UNCHANGED <<pentry, pctor>>
    /\ UNCHANGED notProxy

\* __init__: the id is stored, the resource is fetched and its fields copied.
PInit(err) ==
    /\ pcall.pc = "init"
    /\ LET self == [px EXCEPT !.id = InitId(px.id)]
           call == HttpCall("GET", ProxyPath(self, ""), NoPayload, err)
       IN /\ plog' = Append(plog, call)
          /\ IF err # "" /\ ~Swallowed(px.kind, "init")
             THEN /\ pres' = PRaise(err)
                  /\ pcall' = [pcall EXCEPT !.pc = "idle"]
                  /\ IF pcall.name = "__init__"
                     THEN px' = NoProxy /\ pctor' = NoAttr
                     ELSE px' = self /\ pctor' = pctor
             ELSE /\ px' = IF err = "" THEN FieldsFrom(self, srv) ELSE self
                  /\ pctor' = pctor
                  /\ IF px.kind = "WekanList"
                     THEN /\ pcall' = [pcall EXCEPT !.pc = "count"]
                          /\ pres' = pres
                     ELSE /\ pcall' = [pcall EXCEPT !.pc = "idle"]
                          /\ pres' = PReturn
    /\ UNCHANGED <<srv, pentry>>
    /\ UNCHANGED notProxy

\* WekanList.__init__: the cards_count request, inside try/except Exception.
PCount(err) ==
    /\ pcall.pc = "count"
    /\ LET call == HttpCall("GET", ProxyPath(px, "/cards_count"), NoPayload, err)
       IN /\ plog' = Append(plog, call)
          /\ pcall' = [pcall EXCEPT !.pc = "idle"]
          /\ IF err # "" /\ ~Swallowed(px.kind, "count")
             THEN /\ pres' = PRaise(err)
                  /\ px' = px
             ELSE /\ pres' = PReturn
                  /\ px' = IF err = "" THEN [px EXCEPT !.cards_count = srv.cards_count]
                                       ELSE px
    /\ UNCHANGED <<srv, pentry, pctor>>
    /\ UNCHANGED notProxy

\* WekanCard.from_dict at the end of create_card: the new card's __init__
\* fetches it; the list's proxy is not touched.
PMade(err) ==
    /\ pcall.pc = "made"
    /\ LET made == [kind |-> "WekanCard", id |-> NewCardId, list |-> px.id, suffix |-> ""]
       IN  plog' = Append(plog, HttpCall("GET", made, NoPayload, err))
    /\ pcall' = [pcall EXCEPT !.pc = "idle"]
    /\ pres' = IF err = "" THEN PReturn ELSE PRaise(err)
    /\ UNCHANGED <<px, srv, pentry, pctor>>
    /\ UNCHANGED notProxy

ProxyNext ==
    \/ \E kind \in Kinds, id \in Ids :
         \E list \in (IF kind = "WekanCard" THEN ListIds ELSE {NoAttr}) :
           \E s0 \in Resources(list) : PNew(kind, id, list, s0)
    \/ \E name \in Methods_("WekanCard") \cup Methods_("Board") \cup Methods_("WekanList") :
         \E a \in ArgSets(px.kind, name) : PInvoke(name, a)
    \/ \E err \in CallErrors \cup {""} : PMutate(err)
    \/ \E err \in CallErrors \cup {""} : PInit(err)
    \/ \E err \in CallErrors \cup {""} : PCount(err)
    \/ \E err \in CallErrors \cup {""} : PMade(err)

ProxyInit ==
    /\ ClientIdle
    /\ tz = 0
    /\ ProxyIdle
    /\ EqIdle
    /\ RestIdle

ProxySpec == ProxyInit /\ [][ProxyNext]_vars

\* A proxy method or constructor has ended.
PDone == pcall.pc = "idle" /\ pres.kind # "none"

\* The cards_count request of a list.
IsCardsCount(call) == call.path.kind = "WekanList" /\ call.path.suffix = "/cards_count"

\* C14 as stated: whenever a fetch_json call of a proxy constructor or method
\* raised, the constructor or method ended by raising that same error; so one
\* that returned made only calls that succeeded.
C14_EveryErrorPropagates ==
    PDone =>
        \A i \in 1..Len(plog) :
            plog[i].error # "" => pres = [kind |-> "raise", exc |-> plog[i].error]

\* C14, amended: an error of any call other than the cards_count request of
\* WekanList.__init__ ends the operation at that call with that same error;
\* an error of the cards_count request is caught (and logged): the operation
\* returns normally and cards_count is as the operation found it.
C14_ErrorsPropagateExceptCardsCount ==
    PDone =>
        \A i \in 1..Len(plog) :
            plog[i].error # "" =>
                /\ i = Len(plog)
                /\ IF IsCardsCount(plog[i])
                   THEN /\ pres = [kind |-> "return", exc |-> ""]
                        /\ px.cards_count = pentry.cards_count
                   ELSE pres = [kind |-> "raise", exc |-> plog[i].error]

\* WekanList.update returned although the cards_count request of its refetch failed.
C14_Witness ==
    /\ PDone
    /\ px.kind = "WekanList"
    /\ pcall.name = "update"
    /\ Len(plog) = 3
    /\ plog[3].error = "ConnectionError"
    /\ pres.kind = "return"
    /\ px.cards_count = "3"

\* C15: when the PUT or POST of a mutating method fails, the method makes no
\* further call and every field of the proxy is as the method found it.
C15_FailedMutationLeavesFields ==
    (/\ pcall.name \in {"update", "archive", "restore", "move_to_list",
                        "set_due_date", "assign_member", "edit"}
     /\ Len(plog) >= 1
     /\ plog[1].method \in {"PUT", "POST"}
     /\ plog[1].error # "") =>
        /\ PDone
        /\ pres.kind = "raise"
        /\ Len(plog) = 1
        /\ px = pentry

\* assign_member of a card without members failed at its PUT.
C15_Witness ==
    /\ PDone
    /\ px.kind = "WekanCard"
    /\ pcall.name = "assign_member"
    /\ pres.kind = "raise"
    /\ plog[1].payload.members = <<"u1">>
    /\ px.members = <<>>

\* C16: a proxy's id is the id it was constructed with, whatever operations
\* ran on it and however they ended.
C16_IdIsConstructedId ==
    px.kind # "none" => (px.id = pctor /\ pctor \in Ids)

\* The refetch of move_to_list failed after __init__ had been re-entered.
C16_Witness ==
    /\ PDone
    /\ pcall.name = "move_to_list"
    /\ Len(plog) = 2
    /\ pres.kind = "raise"
    /\ px.id = "x2"

\* C18: Board.update with a non-empty field, WekanList.update with a field
\* that is not None, WekanCard.update and WekanCard.assign_member first send
\* one PUT to the resource's own path with exactly the supplied fields, and
\* every later call is a GET; when the wrapper returns, the resource was
\* fetched from its own path and the proxy's fields are those fetched.
C18_UpdateWrappersPutThenRefetch ==
    LET a == pcall.args
        typed == \/ pcall.name = "assign_member"
                 \/ pcall.name = "update" /\ px.kind = "WekanCard"
                 \/ /\ pcall.name = "update" /\ px.kind = "Board"
                    /\ (a.title \notin {Absent, ""} \/ a.description \notin {Absent, ""})
                 \/ /\ pcall.name = "update" /\ px.kind = "WekanList"
                    /\ (a.title # Absent \/ a.position # Absent)
        own == [kind |-> pentry.kind, id |-> pctor, list |-> pentry.list, suffix |-> ""]
        supplied ==
            IF pcall.name = "assign_member" THEN {"members"}
            ELSE IF px.kind = "WekanList"
            THEN {k \in {"title"} : a.title # Absent} \cup {k \in {"sort"} : a.position # Absent}
            ELSE {k \in {"title", "description"} : a[k] \notin {Absent, ""}}
        assigned ==
            IF \E i \in 1..Len(pentry.members) : pentry.members[i] = a.user
            THEN pentry.members
            ELSE pentry.members \o <<a.user>>
    IN  (PDone /\ typed) =>
            /\ Len(plog) >= 1
            /\ plog[1].method = "PUT"
            /\ plog[1].path = own
            /\ plog[1].payload.keys = supplied
            /\ "title" \in supplied => plog[1].payload.title = a.title
            /\ "description" \in supplied => plog[1].payload.description = a.description
            /\ "sort" \in supplied => plog[1].payload.sort = a.position
            /\ "members" \in supplied => plog[1].payload.members = assigned
            /\ \A i \in 2..Len(plog) : plog[i].method = "GET"
            /\ pres.kind = "return" =>
                /\ Len(plog) >= 2
                /\ plog[2].path = own
                /\ plog[2].error = ""
                /\ px.title = srv.title
                /\ px.archived = srv.archived
                /\ px.kind # "WekanList" => px.members = srv.members

\* Board.update(title="B") returned with the new title.
C18_Witness ==
    /\ PDone
    /\ px.kind = "Board"
    /\ pcall.name = "update"
    /\ pcall.args.title = "B"
    /\ pres.kind = "return"
    /\ pentry.title = "A"
    /\ px.title = "B"

\* C19: after move_to_list(target_list) has returned, the list the card proxy
\* names is target_list.
C19_MovedCardNamesTargetList ==
    (PDone /\ pcall.name = "move_to_list" /\ pres.kind = "return") =>
        px.list = pcall.args.target

\* C20: archive() and restore() of a Board or WekanList send one POST; when it
\* succeeds the archived flag is true after archive() and false after
\* restore(), when it fails the flag is as it was; and between calls only a
\* succeeded archive() or restore(), or a refetch, changes the flag.
C20_ArchiveRestoreFlag ==
    /\ [](PDone /\ pcall.name \in {"archive", "restore"} =>
            /\ Len(plog) = 1
            /\ plog[1].method = "POST"
            /\ plog[1].path =
                  [kind |-> px.kind, id |-> pctor, list |-> NoAttr,
                   suffix |-> IF pcall.name = "archive" THEN "/archive"
                              ELSE IF px.kind = "Board" THEN "/restore"
                              ELSE "/unarchive"]
            /\ pres.kind = "return" => (plog[1].error = "" /\ px.archived = (pcall.name = "archive"))
            /\ pres.kind = "raise" => (plog[1].error # "" /\ px.archived = pentry.archived))
    /\ [][(px.kind # "none" /\ px'.kind # "none" /\ px'.archived # px.archived) =>
            \/ pcall.pc = "init"
            \/ /\ pcall.name \in {"archive", "restore"}
               /\ pcall.pc = "mutate"
               /\ pres'.kind = "return"]_vars

\* restore() of an archived list succeeded.
C20_Witness ==
    /\ PDone
    /\ px.kind = "WekanList"
    /\ pcall.name = "restore"
    /\ pres.kind = "return"
    /\ pentry.archived
    /\ ~px.archived

(***************************************************************************)
(* The equality layer: WekanBase.__hash__ and WekanBase.__eq__.            *)
(***************************************************************************)
\* The proxies that may be compared.
Operands == [kind : Kinds, id : EqIds, title : {"A", "B"}]

\* hash() of an int of small magnitude.
int_hash(n) == IF n = -1 THEN -2 ELSE n

RECURSIVE XorBits(_, _, _)
XorBits(a, b, n) ==
    IF n = 0 THEN 0
    ELSE (((a % 2) + (b % 2)) % 2) + 2 * XorBits(a \div 2, b \div 2, n - 1)

\* a ^ b on HashBits-bit two's complement integers.
Xor(a, b) ==
    LET u == XorBits(a % (2 ^ HashBits), b % (2 ^ HashBits), HashBits)
    IN  IF u >= 2 ^ (HashBits - 1) THEN u - 2 ^ HashBits ELSE u

\* WekanBase.__hash__: hash(class_name) ^ hash(self.id).
__hash__(self) == Xor(str_hash[self.kind], int_hash(self.id))

\* Values that are no proxies: None.
NonProxies == {[kind |-> "NoneType", id |-> 0, title |-> ""]}

\* The built-in hash(obj): the result of obj.__hash__(), with -1 turned
\* into -2.
hash(obj) == IF __hash__(obj) = -1 THEN -2 ELSE __hash__(obj)

\* Variant: a value of another class compares unequal.
eq_OtherClassUnequal(self, other) ==
    IF other.kind = self.kind /\ hash(self) = hash(other) THEN "True" ELSE "False"

\* WekanBase.__eq__: hash(self) and hash(other) are compared when other is
\* of self's class.
__eq__(self, other) ==
    IF other.kind = self.kind
    THEN IF hash(self) = hash(other) THEN "True" ELSE "False"
    ELSE "NotImplementedError"

\* A caller evaluates a == b.
Compare(a, b) ==
    /\ lhs' = a
    /\ rhs' = b
    /\ eq' = __eq__(a, b)
    /\ UNCHANGED str_hash
    /\ UNCHANGED notEq

EqInit ==
    /\ ClientIdle
    /\ tz = 0
    /\ ProxyIdle
    /\ str_hash \in [Kinds -> ClassHashes]
    /\ lhs = NoOperand
    /\ rhs = NoOperand
    /\ eq = "none"
    /\ RestIdle

EqNext == \E a \in Operands, b \in Operands \cup NonProxies : Compare(a, b)

EqSpec == EqInit /\ [][EqNext]_vars

\* C17: two proxies of the same kind compare equal exactly when their ids
\* are equal.
C17_EqualIffSameId ==
    (eq # "none" /\ lhs.kind = rhs.kind) => (eq = "True" <=> lhs.id = rhs.id)

\* C30: comparing a proxy with a value that is not of the proxy's class
\* raises NotImplementedError.
C30_OtherClassRaises ==
    (eq # "none" /\ rhs.kind # lhs.kind) => eq = "NotImplementedError"

\* A board was compared with None.
C30_Witness ==
    /\ eq = "NotImplementedError"
    /\ lhs.kind = "Board"
    /\ rhs.kind = "NoneType"

(***************************************************************************)
(* The card-construction layer.                                            *)
(***************************************************************************)
\* The sets of at most n required keys.
RECURSIVE Lacking(_)
Lacking(n) ==
    IF n = 0 THEN {{}}
    ELSE Lacking(n - 1) \cup {m \cup {k} : m \in Lacking(n - 1), k \in Required}

\* The representations a GET of a card may return: up to MaxMissing required
\* keys and any optional keys may be absent.  The value under a key other
\* than dueAt is written as the key itself.
Representations ==
    LET lacking == Lacking(MaxMissing)
    IN  {[keys |-> (Required \ m) \cup o, dueAt |-> DueNull] :
            m \in lacking, o \in SUBSET OptionalKeys}
        \cup {[keys |-> (Required \ m) \cup o \cup {"dueAt"}, dueAt |-> v] :
                m \in lacking, o \in SUBSET OptionalKeys, v \in DueValues}

\* Variant: the field is assigned without the try/except KeyError.
optional_NoDefault(data, k) == k

\* try: self.f = data[k]  except KeyError: self.f = None
optional(data, k) == IF k \in data.keys THEN k ELSE Absent

\* Lines 69-75: due_at is parsed when dueAt is present and truthy.
due_at(data) ==
    IF "dueAt" \in data.keys /\ data.dueAt.kind = "date"
    THEN [none |-> FALSE, instant |-> parse_iso_date(data.dueAt.date)]
    ELSE NoDue

\* The first required key the representation lacks, in reading order.
FirstMissing(data) ==
    LET i == CHOOSE i \in 1..Len(RequiredKeys) :
                /\ RequiredKeys[i] \notin data.keys
                /\ \A j \in 1..(i - 1) : RequiredKeys[j] \in data.keys
    IN  RequiredKeys[i]

\* WekanCard.__init__ after its GET: data[key] raises KeyError for a key the
\* representation lacks.
card_init(data) ==
    IF \E i \in 1..Len(RequiredKeys) : RequiredKeys[i] \notin data.keys
    THEN [NoCard EXCEPT !.kind = "raise", !.exc = "KeyError", !.key = FirstMissing(data)]
    ELSE [NoCard EXCEPT !.kind = "proxy",
                        !.fields = [k \in OptionalKeys |-> optional(data, k)],
                        !.due_at = due_at(data)]

\* The constructor copies the fields of the representation.
BuildCard ==
    /\ card.kind = "none"
    /\ card' = card_init(card_data)
    /\ UNCHANGED card_data
    /\ UNCHANGED notCard

CardInit ==
    /\ ClientIdle
    /\ tz = 0
    /\ ProxyIdle
    /\ EqIdle
    /\ NavIdle
    /\ SharedIdle
    /\ BoardsIdle
    /\ EditIdle
    /\ ItemIdle
    /\ ConfigIdle
    /\ card_data \in Representations
    /\ card = NoCard

CardSpec == CardInit /\ [][BuildCard]_vars

\* C21: from a representation with every required key the constructor makes
\* a proxy whose optional fields are None for each optional key that is
\* absent, and whose due date is None when dueAt is absent or null; from a
\* representation lacking a required key it raises.
C21_OptionalDefaultRequiredRaises ==
    card.kind # "none" =>
        IF Required \subseteq card_data.keys
        THEN /\ card.kind = "proxy"
             /\ \A k \in OptionalKeys :
                    /\ k \notin card_data.keys => card.fields[k] = "<None>"
                    /\ k \in card_data.keys => card.fields[k] = k
             /\ ("dueAt" \notin card_data.keys \/ card_data.dueAt.kind = "null") =>
                    card.due_at.none
        ELSE card.kind = "raise"

\* A card was built from a representation with the required keys only.
C21_Witness ==
    /\ card.kind = "proxy"
    /\ card_data.keys = Required
    /\ card.fields["vote"] = "<None>"
    /\ card.due_at.none

(***************************************************************************)
(* The configuration layer.                                                *)
(***************************************************************************)
\* The values the environment may give each variable.
EnvValues ==
    [base_url : {Unset, "", "http://e", "http://e/"},
     username : {Unset, "eu"},
     password : {Unset, "ep"},
     token : {Unset, "et"},
     timeout : {Unset, "75000", "abc"}]

\* The text after "=" the file may have for each key.
FileValues ==
    [base_url : {Unset, "", "http://f"},
     username : {Unset, "fu", "'fu'"},
     password : {Unset, "fp"},
     token : {Unset, "ft"},
     timeout : {Unset, "45000"}]

\* value.strip().strip("\"'") of a line's value.
strip_value(raw) == IF raw = "'fu'" THEN "fu" ELSE raw

\* v.rstrip("/")
rstrip_slash(v) == IF v = "http://e/" THEN "http://e" ELSE v

\* The int a decimal numeral names; a str that is no numeral does not validate.
IsNumeral(v) == v \in {"30000", "45000", "75000"}

int(v) ==
    IF v = "45000" THEN 45000 ELSE IF v = "75000" THEN 75000
    ELSE IF v = "30000" THEN 30000 ELSE 0

\* str(n) of a timeout.
str(n) == IF n = 45000 THEN "45000" ELSE IF n = 75000 THEN "75000" ELSE "30000"

\* Variant: the file's values override the environment's.
config_data_FileFirst(env, file) ==
    [k \in ConfigKeys |->
        IF file.exists /\ file.lines[k] # Unset THEN strip_value(file.lines[k])
        ELSE env[k]]

\* {**file_config, **env_config}: the environment's value, else the file's.
config_data(env, file) ==
    [k \in ConfigKeys |->
        IF env[k] # Unset THEN env[k]
        ELSE IF file.exists /\ file.lines[k] # Unset THEN strip_value(file.lines[k])
        ELSE Unset]

\* WekanConfig(**data): a field that is not given keeps its default; base_url
\* goes through validate_base_url, timeout is validated as an int.
WekanConfig(data) ==
    IF \/ data.base_url # Unset /\ rstrip_slash(data.base_url) = ""
       \/ data.timeout # Unset /\ ~IsNumeral(data.timeout)
    THEN [NoConfig EXCEPT !.kind = "raise", !.exc = "ValidationError"]
    ELSE [kind |-> "config", exc |-> "",
          base_url |-> IF data.base_url = Unset THEN DefaultBaseUrl
                       ELSE rstrip_slash(data.base_url),
          username |-> IF data.username = Unset THEN Absent ELSE data.username,
          password |-> IF data.password = Unset THEN Absent ELSE data.password,
          token |-> IF data.token = Unset THEN Absent ELSE data.token,
          timeout |-> IF data.timeout = Unset THEN DefaultTimeout ELSE int(data.timeout)]

\* load_config(config_file)
LoadConfig ==
    /\ config.kind = "none"
    /\ config' = WekanConfig(config_data(environ, config_file))
    /\ UNCHANGED <<environ, config_file>>
    /\ UNCHANGED notConfig

ConfigInit ==
    /\ ClientIdle
    /\ tz = 0
    /\ ProxyIdle
    /\ EqIdle
    /\ NavIdle
    /\ SharedIdle
    /\ BoardsIdle
    /\ EditIdle
    /\ ItemIdle
    /\ CardIdle
    /\ environ \in EnvValues
    /\ config_file \in {NoConfigFile} \cup [exists : {TRUE}, lines : FileValues]
    /\ config = NoConfig

\* The configurations the CLI's config commands hand to save_config.
SavedConfigs ==
    [kind : {"config"}, exc : {""}, base_url : {"http://s"}, username : {Absent, "su"},
     password : {Absent}, token : {Absent, "st"}, timeout : {DefaultTimeout, 45000}]

\* The file save_config writes: base_url and timeout always, the others when
\* they are set.
saved_file(cfg) ==
    [exists |-> TRUE,
     lines |-> [k \in ConfigKeys |->
                   CASE k = "base_url" -> cfg.base_url
                     [] k = "timeout" -> str(cfg.timeout)
                     [] OTHER -> IF cfg[k] \in {Absent, ""} THEN Unset ELSE cfg[k]]]

\* save_config(cfg, config_file) at the end of a config command; the next
\* command loads the configuration anew.
SaveConfig(cfg) ==
    /\ config_file' = saved_file(cfg)
    /\ config' = NoConfig
    /\ UNCHANGED environ
    /\ UNCHANGED notConfig

ConfigNext ==
    \/ LoadConfig
    \/ \E cfg \in SavedConfigs : SaveConfig(cfg)

ConfigSpec == ConfigInit /\ [][ConfigNext]_vars

\* The value the claim's rule picks for key k: the environment's when set,
\* else the file's, else none.
Picked(k) ==
    IF environ[k] # "<unset>" THEN environ[k]
    ELSE IF config_file.exists /\ config_file.lines[k] # "<unset>"
    THEN config_file.lines[k]
    ELSE "<unset>"

\* C22 as stated: load_config gives, for every key, the environment's value
\* when set, else the file's value, else the default (a timeout as the number
\* its text names).
C22_EnvThenFileThenDefault ==
    config.kind # "none" =>
        /\ config.kind = "config"
        /\ config.base_url =
              IF Picked("base_url") = "<unset>" THEN "http://localhost:3000"
              ELSE Picked("base_url")
        /\ \A k \in {"username", "password", "token"} :
              config[k] = IF Picked(k) = "<unset>" THEN "<None>" ELSE Picked(k)
        /\ config.timeout =
              IF Picked("timeout") \in {"<unset>", "30000"} THEN 30000
              ELSE IF Picked("timeout") = "45000" THEN 45000 ELSE 75000

\* C22, amended: the value picked for a key is the environment's when set,
\* else the file's with surrounding blanks and quotes removed, else none.
\* load_config raises when the base_url picked is empty once its trailing
\* slashes are removed, or the timeout picked is not an integer numeral;
\* otherwise each field is the value picked (base_url without trailing
\* slashes, timeout as an integer) or, when none was picked, the default.
C22_PrecedenceWithValidation ==
    LET picked(k) ==
            IF environ[k] # "<unset>" THEN environ[k]
            ELSE IF config_file.exists /\ config_file.lines[k] # "<unset>"
            THEN (IF config_file.lines[k] = "'fu'" THEN "fu" ELSE config_file.lines[k])
            ELSE "<unset>"
        url == IF picked("base_url") = "http://e/" THEN "http://e" ELSE picked("base_url")
        invalid == url = "" \/ picked("timeout") = "abc"
    IN  config.kind # "none" =>
            IF invalid
            THEN config.kind = "raise"
            ELSE /\ config.kind = "config"
                 /\ config.base_url = IF url = "<unset>" THEN "http://localhost:3000" ELSE url
                 /\ \A k \in {"username", "password", "token"} :
                       config[k] = IF picked(k) = "<unset>" THEN "<None>" ELSE picked(k)
                 /\ config.timeout =
                       IF picked("timeout") \in {"<unset>", "30000"} THEN 30000
                       ELSE IF picked("timeout") = "45000" THEN 45000 ELSE 75000

\* The environment overrode the file for one key while the file gave another
\* and a third fell back to its default.
C22_Witness ==
    /\ config.kind = "config"
    /\ config_file.exists
    /\ environ.base_url = "http://e"
    /\ config_file.lines.base_url = "http://f"
    /\ config.base_url = "http://e"
    /\ environ.timeout = "<unset>"
    /\ config.timeout = 45000
    /\ config.token = "<None>"

(***************************************************************************)
(* The checklist-item layer.                                               *)
(***************************************************************************)
\* The attributes the constructors give each object that lead to a parent:
\* item.checklist, checklist.card, card.list, list.board, board.client.
Parent ==
    [CardChecklistItem |-> [attr |-> "checklist", class |-> "CardChecklist"],
     CardChecklist |-> [attr |-> "card", class |-> "WekanCard"],
     WekanCard |-> [attr |-> "list", class |-> "WekanList"],
     WekanList |-> [attr |-> "board", class |-> "Board"],
     Board |-> [attr |-> "client", class |-> "WekanClient"]]

\* The class of the object an attribute chain leads to from an object of class
\* class, or "AttributeError" when an object on the way lacks the attribute.
RECURSIVE Walk(_, _)
Walk(class, chain) ==
    IF chain = <<>> THEN class
    ELSE IF class \in DOMAIN Parent /\ Parent[class].attr = Head(chain)
    THEN Walk(Parent[class].class, Tail(chain))
    ELSE "AttributeError"

\* The chain __init__ and edit follow to the board: self.checklist.card.list.board
EditChain == <<"checklist", "card", "list", "board">>

\* The chain delete follows to the board: self.checklist.card.board
DeleteChain == <<"checklist", "card", "board">>

ItemPath(it) == [board |-> it.board, card |-> it.card, checklist |-> it.checklist, item |-> it.id]

\* CardChecklistItem.edit: a key for every truthy argument.
ItemPayload(is_finished, title) ==
    [keys |-> (IF is_finished = "True" THEN {"isFinished"} ELSE {})
                 \cup (IF Truthy(title) THEN {"title"} ELSE {}),
     title |-> IF Truthy(title) THEN title ELSE Absent]

NoItemPayload == ItemPayload(Absent, Absent)

ItemCall(method, it, payload, err) ==
    [method |-> method, path |-> ItemPath(it), payload |-> payload, error |-> err]

\* One fetch_json call of an item method: the chain to the board is followed,
\* then the request made; it returns (err = "") or raises err.
ItemRequest(chain, method, it, payload, err) ==
    IF Walk("CardChecklistItem", chain) # "Board"
    THEN /\ ilog' = <<>>
         /\ ires' = PRaise("AttributeError")
    ELSE /\ ilog' = <<ItemCall(method, it, payload, err)>>
         /\ ires' = IF err = "" THEN PReturn ELSE PRaise(err)

\* CardChecklistItem(parent_checklist, item_id, title, is_finished)
ItemNew(it, err) ==
    /\ item = NoItem
    /\ icall' = "__init__"
    /\ ItemRequest(EditChain, "GET", it, NoItemPayload, err)
    /\ item' = IF ires'.kind = "return" THEN it ELSE NoItem
    /\ UNCHANGED notItem

\* item.edit(is_finished, title)
ItemEdit(is_finished, title, err) ==
    /\ item # NoItem
    /\ icall' = "edit"
    /\ ItemRequest(EditChain, "PUT", item, ItemPayload(is_finished, title), err)
    /\ UNCHANGED item
    /\ UNCHANGED notItem

\* item.delete()
ItemDelete(err) ==
    /\ item # NoItem
    /\ icall' = "delete"
    /\ ItemRequest(DeleteChain, "DELETE", item, NoItemPayload, err)
    /\ UNCHANGED item
    /\ UNCHANGED notItem

\* The caller lets go of the item.
ItemDrop ==
    /\ item # NoItem
    /\ item' = NoItem
    /\ icall' = "none"
    /\ ilog' = <<>>
    /\ ires' = NoResult
    /\ UNCHANGED notItem

Items ==
    [id : {"i1", "i2"}, checklist : {"k1", "k2"}, card : {"c1", "c2"}, board : {"b1", "b2"},
     title : {"A"}, is_finished : BOOLEAN]

ItemInit ==
    /\ ClientIdle
    /\ tz = 0
    /\ ProxyIdle
    /\ EqIdle
    /\ NavIdle
    /\ SharedIdle
    /\ BoardsIdle
    /\ EditIdle
    /\ CardIdle
    /\ ConfigIdle
    /\ ItemIdle

ItemNext ==
    \/ \E it \in Items, err \in CallErrors \cup {""} : ItemNew(it, err)
    \/ \E f \in {Absent, "True", "False"}, t \in TitleArgs, err \in CallErrors \cup {""} :
         ItemEdit(f, t, err)
    \/ \E err \in CallErrors \cup {""} : ItemDelete(err)
    \/ ItemDrop

ItemSpec == ItemInit /\ [][ItemNext]_vars

\* C24: delete() of a checklist item issues exactly one request, a DELETE to
\* the item's path under its board, card and checklist.
C24_ItemDeleteIssuesOneDelete ==
    icall = "delete" =>
        /\ Len(ilog) = 1
        /\ ilog[1].method = "DELETE"
        /\ ilog[1].path = [board |-> item.board, card |-> item.card,
                           checklist |-> item.checklist, item |-> item.id]

(***************************************************************************)
(* The edit-arguments layer.                                               *)
(***************************************************************************)
\* The arguments a caller may give edit: each None, a falsy value of its type
\* or a truthy one.
EditArgs ==
    [title : {None(""), Some(""), Some("B")},
     description : {None(""), Some("D")},
     is_overtime : {None(FALSE), Some(FALSE), Some(TRUE)},
     spent_time : {None(0), Some(0), Some(3)},
     members : {None(<<>>), Some(<<>>), Some(<<"u1">>)}]

\* The payload key of each argument.
PayloadKey ==
    [title |-> "title", description |-> "description", is_overtime |-> "isOverTime",
     spent_time |-> "spentTime", members |-> "members"]

\* Variant: the tests are "is not None".
truthy_NotNone(name, arg) == ~arg.none

\* if <argument>: Python's truth value of None, a str, a bool, an int, a list.
truthy(name, arg) ==
    /\ ~arg.none
    /\ CASE name \in {"title", "description"} -> arg.v # ""
         [] name = "is_overtime" -> arg.v
         [] name = "spent_time" -> arg.v # 0
         [] name = "members" -> arg.v # <<>>

\* Lines 236-282: a key for every argument that is truthy.
edit_payload(args) ==
    [keys |-> {PayloadKey[n] : n \in {m \in DOMAIN PayloadKey : truthy(m, args[m])}},
     title |-> IF truthy("title", args.title) THEN args.title.v ELSE "",
     description |-> IF truthy("description", args.description)
                     THEN args.description.v ELSE "",
     isOverTime |-> IF truthy("is_overtime", args.is_overtime) THEN args.is_overtime.v ELSE FALSE,
     spentTime |-> IF truthy("spent_time", args.spent_time) THEN args.spent_time.v ELSE 0,
     members |-> IF truthy("members", args.members) THEN args.members.v ELSE <<>>]

\* card.edit(**args): lines 284-285, one PUT with the payload.
Edit(args) ==
    /\ edit_sent = <<>>
    /\ edit_args' = args
    /\ edit_sent' = <<[method |-> "PUT", payload |-> edit_payload(args)]>>
    /\ UNCHANGED notEdit

\* The caller goes on to the next call.
EditReturn ==
    /\ edit_sent # <<>>
    /\ edit_args' = NoEditArgs
    /\ edit_sent' = <<>>
    /\ UNCHANGED notEdit

EditInit ==
    /\ ClientIdle
    /\ tz = 0
    /\ ProxyIdle
    /\ EqIdle
    /\ NavIdle
    /\ SharedIdle
    /\ BoardsIdle
    /\ CardIdle
    /\ ConfigIdle
    /\ ItemIdle
    /\ EditIdle

EditNext ==
    \/ \E args \in EditArgs : Edit(args)
    \/ EditReturn

EditSpec == EditInit /\ [][EditNext]_vars

\* C27: edit sends one PUT, and its payload has the key of an argument
\* exactly when the argument is neither None nor False, 0, "" or [], with the
\* argument's value under it.
C27_EditOmitsFalsyArguments ==
    edit_sent # <<>> =>
        /\ Len(edit_sent) = 1
        /\ edit_sent[1].method = "PUT"
        /\ LET keys == edit_sent[1].payload.keys
               a == edit_args
           IN  /\ keys \subseteq {"title", "description", "isOverTime", "spentTime", "members"}
               /\ "title" \in keys <=> (~a.title.none /\ a.title.v # "")
               /\ "description" \in keys <=> (~a.description.none /\ a.description.v # "")
               /\ "isOverTime" \in keys <=> (~a.is_overtime.none /\ a.is_overtime.v = TRUE)
               /\ "spentTime" \in keys <=> (~a.spent_time.none /\ a.spent_time.v # 0)
               /\ "members" \in keys <=> (~a.members.none /\ a.members.v # <<>>)
               /\ "title" \in keys => edit_sent[1].payload.title = a.title.v
               /\ "description" \in keys =>
                      edit_sent[1].payload.description = a.description.v
               /\ "isOverTime" \in keys => edit_sent[1].payload.isOverTime = a.is_overtime.v
               /\ "spentTime" \in keys => edit_sent[1].payload.spentTime = a.spent_time.v
               /\ "members" \in keys => edit_sent[1].payload.members = a.members.v

\* edit(is_overtime=False, spent_time=0, members=[]) sent an empty payload.
C27_Witness ==
    /\ Len(edit_sent) = 1
    /\ edit_args.title.none
    /\ edit_args.description.none
    /\ edit_args.is_overtime = [none |-> FALSE, v |-> FALSE]
    /\ edit_args.spent_time = [none |-> FALSE, v |-> 0]
    /\ edit_args.members = [none |-> FALSE, v |-> <<>>]
    /\ edit_sent[1].payload.keys = {}

(***************************************************************************)
(* The board-listing layer.                                                *)
(***************************************************************************)
\* How many boards one response may list.
MaxBoards == 2

\* The responses to a GET of a board list: sequences of distinct board ids.
BoardLists ==
    UNION {{s \in [1..n -> DOMAIN BoardTitle] : \A i, j \in 1..n : i # j => s[i] # s[j]} :
              n \in 0..MaxBoards}

RegexFilters == {".*", "Alpha"}

\* re.search(regex_filter, title)
re_search(regex_filter, title) ==
    regex_filter = ".*" \/ (regex_filter = "Alpha" /\ title \in {"Alpha", "Alpha two"})

\* Line 66: the boards whose title the filter matches, in order.
RECURSIVE FilterBoards(_, _)
FilterBoards(boards, regex_filter) ==
    IF boards = <<>> THEN <<>>
    ELSE (IF re_search(regex_filter, Head(boards).title) THEN <<Head(boards)>> ELSE <<>>)
            \o FilterBoards(Tail(boards), regex_filter)

\* Where list_boards stands once a response has been taken in: Board.from_list
\* constructs the next board of the response; after the last public board the
\* user's boards are requested; after the last of those line 66 returns.
Proceed(l) ==
    IF l.todo # <<>> THEN l
    ELSE IF l.pc = "public_boards" THEN [l EXCEPT !.pc = "get_boards"]
    ELSE [l EXCEPT !.pc = "idle"]

\* The listing goes on to l; when it has come to its end, list_boards returns.
Listing(l) ==
    /\ listing' = Proceed(l)
    /\ listed' = IF Proceed(l).pc = "idle"
                 THEN [kind |-> "return", exc |-> "",
                       boards |-> FilterBoards(l.built, l.regex_filter)]
                 ELSE listed

\* A request of list_boards raised: the call ends with that error.
ListingRaise(l, err) ==
    /\ listing' = [l EXCEPT !.pc = "idle"]
    /\ listed' = [kind |-> "raise", exc |-> err, boards |-> <<>>]

\* client.list_boards(regex_filter) is called.
ListBoards(regex_filter) ==
    /\ listing.pc = "idle"
    /\ listed.kind = "none"
    /\ listing' = [NotListing EXCEPT !.pc = "get_public_boards", !.regex_filter = regex_filter]
    /\ UNCHANGED <<public_boards, private_boards, board_titles, listed>>
    /\ UNCHANGED notBoards

\* __get_public_boards: GET /api/boards.
GetPublicBoards(err) ==
    /\ listing.pc = "get_public_boards"
    /\ LET l == [listing EXCEPT !.requests = Append(@, "/api/boards")]
       IN  IF err # "" THEN ListingRaise(l, err)
           ELSE Listing([l EXCEPT !.pc = "public_boards", !.todo = public_boards])
    /\ UNCHANGED <<public_boards, private_boards, board_titles>>
    /\ UNCHANGED notBoards

\* __get_boards: GET /api/users/{user_id}/boards.
GetBoards(err) ==
    /\ listing.pc = "get_boards"
    /\ LET l == [listing EXCEPT !.requests = Append(@, "/api/users/{user_id}/boards")]
       IN  IF err # "" THEN ListingRaise(l, err)
           ELSE Listing([l EXCEPT !.pc = "private_boards", !.todo = private_boards])
    /\ UNCHANGED <<public_boards, private_boards, board_titles>>
    /\ UNCHANGED notBoards

\* Board.__init__ inside Board.from_list: GET /api/boards/{id} of the next
\* entry of the response; the proxy gets the title the board has now.
BoardInit(err) ==
    /\ listing.pc \in {"public_boards", "private_boards"}
    /\ listing.todo # <<>>
    /\ LET id == Head(listing.todo)
           l == [listing EXCEPT !.requests = Append(@, id)]
       IN  IF err # "" THEN ListingRaise(l, err)
           ELSE Listing([l EXCEPT !.todo = Tail(@),
                                  !.built = Append(@, [id |-> id, title |-> board_titles[id]])])
    /\ UNCHANGED <<public_boards, private_boards, board_titles>>
    /\ UNCHANGED notBoards

\* Another client of the server renames a board.
RenameBoard(id, title) ==
    /\ board_titles[id] # title
    /\ board_titles' = [board_titles EXCEPT ![id] = title]
    /\ UNCHANGED <<public_boards, private_boards, listing, listed>>
    /\ UNCHANGED notBoards

BoardsInit ==
    /\ ClientIdle
    /\ tz = 0
    /\ ProxyIdle
    /\ EqIdle
    /\ NavIdle
    /\ SharedIdle
    /\ CardIdle
    /\ ConfigIdle
    /\ ItemIdle
    /\ EditIdle
    /\ public_boards \in BoardLists
    /\ private_boards \in BoardLists
    /\ board_titles = BoardTitle
    /\ listing = NotListing
    /\ listed = NoListing

BoardsNext ==
    \/ \E f \in RegexFilters : ListBoards(f)
    \/ \E err \in CallErrors \cup {""} : GetPublicBoards(err)
    \/ \E err \in CallErrors \cup {""} : GetBoards(err)
    \/ \E err \in CallErrors \cup {""} : BoardInit(err)
    \/ \E id \in DOMAIN BoardTitle, title \in {"Alpha", "Beta"} : RenameBoard(id, title)

BoardsSpec == BoardsInit /\ [][BoardsNext]_vars

\* C28: the list list_boards returns has no two proxies with the same id.
C28_ListedBoardsDistinct ==
    listed.kind = "return" =>
        \A i, j \in 1..Len(listed.boards) :
            i # j => listed.boards[i].id # listed.boards[j].id

(***************************************************************************)
(* The shared-card layer.                                                  *)
(***************************************************************************)
AssignableUsers == {"u1", "u2"}

\* Lines 100-102: proxy p starts assign_member(u) and builds member_ids from
\* its own members field.
AssignBegin(p, u) ==
    /\ replicas[p].pc = "idle"
    /\ replicas' = [replicas EXCEPT ![p] =
                        [members |-> replicas[p].members, pc |-> "put", user |-> u,
                         payload |-> member_ids(replicas[p].members, u)]]
    /\ UNCHANGED <<card_members, assigned_users>>
    /\ UNCHANGED notShared

\* Line 103: edit(members=member_ids); the server stores the list the PUT carries.
AssignPut(p) ==
    /\ replicas[p].pc = "put"
    /\ card_members' = replicas[p].payload
    /\ replicas' = [replicas EXCEPT ![p].pc = "get"]
    /\ UNCHANGED assigned_users
    /\ UNCHANGED notShared

\* Line 104: __init__ fetches the card again; the call returns.
AssignRefetch(p) ==
    /\ replicas[p].pc = "get"
    /\ replicas' = [replicas EXCEPT ![p] =
                        [members |-> card_members, pc |-> "idle",
                         user |-> replicas[p].user, payload |-> replicas[p].payload]]
    /\ assigned_users' = assigned_users \cup {replicas[p].user}
    /\ UNCHANGED card_members
    /\ UNCHANGED notShared

SharedInit ==
    /\ ClientIdle
    /\ tz = 0
    /\ ProxyIdle
    /\ EqIdle
    /\ NavIdle
    /\ CardIdle
    /\ ConfigIdle
    /\ ItemIdle
    /\ EditIdle
    /\ BoardsIdle
    /\ SharedIdle

SharedNext ==
    \/ \E p \in Replicas, u \in AssignableUsers : AssignBegin(p, u)
    \/ \E p \in Replicas : AssignPut(p)
    \/ \E p \in Replicas : AssignRefetch(p)

SharedSpec == SharedInit /\ [][SharedNext]_vars

\* C26: when no assign_member call is under way, the card's member list on
\* the server has every user id passed to a call that returned, each once.
C26_NoAssignedMemberLost ==
    (\A p \in 1..MaxProxies : replicas[p].pc = "idle") =>
        /\ \A u \in assigned_users : \E i \in 1..Len(card_members) : card_members[i] = u
        /\ \A i, j \in 1..Len(card_members) : i # j => card_members[i] # card_members[j]


(***************************************************************************)
(* The navigation shell.                                                   *)
(***************************************************************************)
Levels == {"ROOT", "BOARD", "LIST", "CARD"}

\* The titles of the boards, lists and cards; l3 and l4 are lists created
\* while the session runs.
NavTitle ==
    [b1 |-> "Alpha", b2 |-> "Beta", l1 |-> "Todo", l2 |-> "Done", l3 |-> "New", l4 |-> "New",
     c1 |-> "Fix", c2 |-> "Test"]

\* The ids the server gives to the lists that are created, in order.
NewListIds == <<"l3", "l4">>

\* How many lists are created while the session runs.
MaxCreated == 1

\* How many changes other clients of the server make while the session runs.
MaxChanges == 1

\* The words typed after cd; mkdir and touch get a name.
Identifiers == {"1", "2", "3", "b", "Al", "l2", "do", "c2", "zz"}
Names == {"New"}

\* The words typed after mv, and after rm.
MoveTargets == {"1", "2", "do", "zz"}
RemoveTargets == {"1"}

\* The arguments of a command line: none, one word, or two.
ArgLines(words) == {<<>>} \cup {<<w>> : w \in words}
TwoWords == {<<"1", "2">>}

\* identifier.isdigit() and int(identifier)
isdigit(identifier) == identifier \in {"1", "2", "3"}
index_of(identifier) == CASE identifier = "1" -> 1 [] identifier = "2" -> 2 [] OTHER -> 3

\* identifier in x.id, which for these ids is also x.id.startswith(identifier)
in_id(identifier, id) ==
    <<identifier, id>> \in {<<"b", "b1">>, <<"b", "b2">>, <<"l2", "l2">>, <<"c2", "c2">>}

\* identifier.lower() in x.title.lower()
in_title(identifier, id) ==
    <<identifier, NavTitle[id]>> \in
        {<<"b", "Beta">>, <<"Al", "Alpha">>, <<"do", "Todo">>, <<"do", "Done">>}

NavCall(name, self, arg) == [name |-> name, self |-> self, arg |-> arg]

\* What a handler leaves behind: the context and its output.
Result(n, out) == [nav |-> n, printed |-> out]

\* The selection inside activate_list, activate_card and
\* move_current_card_to_list: by index, or the first whose id or title has
\* the identifier.
pick(items, identifier) ==
    IF isdigit(identifier)
    THEN IF index_of(identifier) <= Len(items) THEN items[index_of(identifier)] ELSE Absent
    ELSE LET hits == {i \in 1..Len(items) :
                         in_id(identifier, items[i]) \/ in_title(identifier, items[i])}
         IN  IF hits = {} THEN Absent
             ELSE items[CHOOSE i \in hits : \A j \in hits : i <= j]

\* find_board once client.list_boards() has returned boards or has raised
\* (fails): by index, else by a single id prefix match, else by a single
\* title match; the error is caught and gives None.
find_board(boards, identifier, fails) ==
    IF fails \/ boards = <<>> THEN Absent
    ELSE IF isdigit(identifier) /\ index_of(identifier) <= Len(boards)
    THEN boards[index_of(identifier)]
    ELSE LET id_matches == {i \in 1..Len(boards) : in_id(identifier, boards[i])}
             name_matches == {i \in 1..Len(boards) : in_title(identifier, boards[i])}
         IN  IF Cardinality(id_matches) = 1 THEN boards[CHOOSE i \in id_matches : TRUE]
             ELSE IF Cardinality(id_matches) > 1 THEN Absent
             ELSE IF Cardinality(name_matches) = 1
             THEN boards[CHOOSE i \in name_matches : TRUE]
             ELSE Absent

\* activate_board once list_boards has returned boards or has raised.
activate_board(n, boards, identifier, fails) ==
    LET board == find_board(boards, identifier, fails)
    IN  IF board = Absent THEN Result(n, <<"No board found">>)
        ELSE Result([level |-> "BOARD", board |-> board, list_obj |-> Absent,
                     card |-> Absent], <<>>)

\* activate_list once board.get_lists() has returned lists or has raised.
activate_list(n, lists, identifier, fails) ==
    LET target_list == pick(lists, identifier)
    IN  IF fails THEN Result(n, <<"Error finding list">>)
        ELSE IF target_list = Absent THEN Result(n, <<"List not found">>)
        ELSE Result([n EXCEPT !.list_obj = target_list, !.card = Absent, !.level = "LIST"],
                    <<>>)

\* activate_card once list_obj.get_cards() has returned cards or has raised.
activate_card(n, cards, identifier, fails) ==
    LET target_card == pick(cards, identifier)
    IN  IF fails THEN Result(n, <<"Error finding card">>)
        ELSE IF target_card = Absent THEN Result(n, <<"Card not found">>)
        ELSE Result([n EXCEPT !.card = target_card, !.level = "CARD"], <<>>)

\* Variant: going back lowers the level and keeps what was selected.
go_back_KeepSelection(n) ==
    CASE n.level = "CARD" -> Result([n EXCEPT !.level = "LIST"], <<>>)
      [] n.level = "LIST" -> Result([n EXCEPT !.level = "BOARD"], <<>>)
      [] n.level = "BOARD" -> Result([n EXCEPT !.level = "ROOT"], <<>>)
      [] OTHER -> Result(n, <<"Already at root level">>)

go_back(n) ==
    CASE n.level = "CARD" -> Result([n EXCEPT !.card = Absent, !.level = "LIST"], <<>>)
      [] n.level = "LIST" -> Result([n EXCEPT !.list_obj = Absent, !.level = "BOARD"], <<>>)
      [] n.level = "BOARD" -> Result([n EXCEPT !.board = Absent, !.level = "ROOT"], <<>>)
      [] OTHER -> Result(n, <<"Already at root level">>)

go_to_root(n) == Result(NoSelection, <<>>)

handle_pwd(n) == Result(n, <<"Current path">>)

handle_touch(n, args) ==
    IF args = <<>> THEN Result(n, <<"Usage">>)
    ELSE IF n.level # "LIST" THEN Result(n, <<"touch can only be used at list level">>)
    ELSE Result(n, <<"Card creation coming soon">>)

\* delete_current_card once Confirm.ask has returned confirm.
delete_current_card(n, confirm) ==
    IF confirm
    THEN Result([n EXCEPT !.card = Absent, !.level = "LIST"],
                <<"Card deletion API coming soon", "Would delete", "Returned to list level">>)
    ELSE Result(n, <<"Deletion cancelled">>)

\* move_current_card_to_list once board.get_lists() has returned lists: the
\* target list, or what is printed when there is none to move to.
move_target(n, lists, target_identifier) ==
    LET target_list == pick(lists, target_identifier)
    IN  IF target_list = Absent THEN [target |-> Absent, printed |-> <<"List not found">>]
        ELSE IF target_list = n.list_obj
        THEN [target |-> Absent, printed |-> <<"Card is already in this list">>]
        ELSE [target |-> target_list, printed |-> <<"Move?">>]

\* move_current_card_to_list once card.edit(new_list=target_list) has returned.
moved(n, target_list) ==
    Result([n EXCEPT !.list_obj = target_list, !.card = Absent, !.level = "LIST"],
           <<"Card moved", "Moved to list">>)

(***************************************************************************)
(* The requests of a proxy call, one at a time.                            *)
(***************************************************************************)
Req(kind, id) == [kind |-> kind, id |-> id]

\* The first requests of a call: list_boards asks for the public boards and
\* then for the user's; the others start with one request.
FirstRequests(call) ==
    CASE call.name = "list_boards" ->
            <<Req("public_boards", "client"), Req("user_boards", "client")>>
      [] call.name = "get_lists" -> <<Req("lists", call.self)>>
      [] call.name = "get_cards" -> <<Req("cards", call.self)>>
      [] call.name = "create_list" -> <<Req("post_list", call.self)>>
      [] OTHER -> <<Req("put_card", call.self)>>

\* Board.from_list and WekanCard.from_list: one GET for every entry.
Each(kind, ids) == [i \in 1..Len(ids) |-> Req(kind, ids[i])]

\* WekanList.from_list: for every entry the list's GET, then its cards_count.
EachList(ids) ==
    [i \in 1..(2 * Len(ids)) |->
        IF i % 2 = 1 THEN Req("list", ids[(i + 1) \div 2]) ELSE Req("cards_count", ids[i \div 2])]

\* The call under way once the server has answered its next request: what
\* the answer lists is kept, and a proxy is to be constructed for each entry.
Served(t, r) ==
    LET req == Head(t.reqs)
        rest == Tail(t.reqs)
    IN  CASE req.kind = "public_boards" ->
                [t EXCEPT !.items = @ \o r.public, !.reqs = Each("board", r.public) \o rest]
          [] req.kind = "user_boards" ->
                [t EXCEPT !.items = @ \o r.boards, !.reqs = Each("board", r.boards) \o rest]
          [] req.kind = "lists" ->
                [t EXCEPT !.items = r.lists[req.id], !.reqs = EachList(r.lists[req.id]) \o rest]
          [] req.kind = "cards" ->
                [t EXCEPT !.items = r.cards[req.id],
                          !.reqs = Each("card", r.cards[req.id]) \o rest]
          [] req.kind = "post_list" ->
                [t EXCEPT !.items = <<NewListIds[r.created + 1]>>,
                          !.reqs = EachList(<<NewListIds[r.created + 1]>>) \o rest]
          [] OTHER -> [t EXCEPT !.reqs = rest]

\* The sequence without its entries equal to x.
RECURSIVE Without(_, _)
Without(s, x) ==
    IF s = <<>> THEN <<>>
    ELSE (IF Head(s) = x THEN <<>> ELSE <<Head(s)>>) \o Without(Tail(s), x)

\* The server after a card's PUT with listId: the card is in that list.
Moved(r, c, to) ==
    [r EXCEPT !.cards = [l \in DOMAIN r.cards |->
                            IF l = to THEN Append(Without(r.cards[l], c), c)
                            ELSE Without(r.cards[l], c)]]

\* What an answered request does to the server.
Effect(r, t) ==
    LET req == Head(t.reqs)
    IN  CASE req.kind = "post_list" ->
                [r EXCEPT !.lists[req.id] = Append(@, NewListIds[r.created + 1]),
                          !.created = @ + 1]
          [] req.kind = "put_card" -> Moved(r, req.id, t.call.arg)
          [] OTHER -> r

(***************************************************************************)
(* What a handler does once a proxy call has returned or raised.           *)
(***************************************************************************)
\* The handler ends and the session is back at its prompt.
End(res) == [nav |-> res.nav, printed |-> res.printed, calls |-> <<>>, turn |-> AtPrompt]

\* The handler makes its next proxy call.
Then(n, phase, call, walk, target) ==
    [nav |-> n, printed |-> <<>>, calls |-> <<call>>,
     turn |-> [pc |-> "request", phase |-> phase, call |-> call,
               reqs |-> FirstRequests(call), items |-> <<>>, walk |-> walk,
               target |-> target]]

\* The handler waits in Confirm.ask.
Ask(n, out, target) ==
    [nav |-> n, printed |-> out, calls |-> <<>>,
     turn |-> [AtPrompt EXCEPT !.pc = "confirm", !.target = target]]

\* list_boards and list_board_contents walk what they listed: get_lists of
\* every board, get_cards of every list, then the table is printed.
walk_listed(n, walk, name) ==
    IF walk = <<>> THEN End(Result(n, <<"listing">>))
    ELSE Then(n, "walk", NavCall(name, Head(walk), Absent), Tail(walk), Absent)

\* handle_ls at ROOT, BOARD and LIST level once the listing call has
\* returned (ok) or raised; an error inside the walk is caught per entry.
handle_ls(t, n, ok) ==
    IF t.phase = "walk" THEN walk_listed(n, t.walk, t.call.name)
    ELSE IF ~ok THEN End(Result(n, <<"Error listing">>))
    ELSE IF t.items = <<>> THEN End(Result(n, <<"Nothing to list">>))
    ELSE IF n.level = "LIST" THEN End(Result(n, <<"listing">>))
    ELSE walk_listed(n, t.items, IF n.level = "ROOT" THEN "get_lists" ELSE "get_cards")

\* handle_cd with a target once the level's listing call has ended.
handle_cd(t, n, identifier, ok) ==
    CASE n.level = "ROOT" -> End(activate_board(n, t.items, identifier, ~ok))
      [] n.level = "BOARD" -> End(activate_list(n, t.items, identifier, ~ok))
      [] OTHER -> End(activate_card(n, t.items, identifier, ~ok))

\* handle_mkdir once board.create_list has ended.
handle_mkdir(n, ok) ==
    End(Result(n, IF ok THEN <<"Created list">> ELSE <<"Error creating list">>))

\* move_current_card_to_list once get_lists or card.edit has ended.
move_current_card_to_list(t, n, target_identifier, ok) ==
    IF t.phase = "edit"
    THEN End(IF ok THEN moved(n, t.target) ELSE Result(n, <<"Failed to move card">>))
    ELSE IF ~ok THEN End(Result(n, <<"Error moving card">>))
    ELSE LET m == move_target(n, t.items, target_identifier)
         IN  IF m.target = Absent THEN End(Result(n, m.printed))
             ELSE Ask(n, m.printed, m.target)

\* The handler of the command under way goes on.
Continue(t, n, c, ok) ==
    CASE c.cmd = "cd" -> handle_cd(t, n, c.args[1], ok)
      [] c.cmd = "ls" -> handle_ls(t, n, ok)
      [] c.cmd = "mkdir" -> handle_mkdir(n, ok)
      [] OTHER -> move_current_card_to_list(t, n, c.args[1], ok)

(***************************************************************************)
(* The session: a command line is read, its handler runs request by        *)
(* request, other clients change the server in between.                    *)
(***************************************************************************)
\* A command whose handler calls no proxy.
Local(cmd, args, res) ==
    /\ turn.pc = "prompt"
    /\ command' = [cmd |-> cmd, args |-> args]
    /\ nav' = res.nav
    /\ printed' = res.printed
    /\ proxy_calls' = <<>>
    /\ UNCHANGED <<remote, turn>>
    /\ UNCHANGED notNav

\* A command whose handler starts with a proxy call.
Calling(cmd, args, call) ==
    /\ turn.pc = "prompt"
    /\ command' = [cmd |-> cmd, args |-> args]
    /\ printed' = <<>>
    /\ proxy_calls' = <<call>>
    /\ turn' = Then(nav, "main", call, <<>>, Absent).turn
    /\ UNCHANGED <<nav, remote>>
    /\ UNCHANGED notNav

\* A command whose handler starts with Confirm.ask.
Asking(cmd, args, out) ==
    /\ turn.pc = "prompt"
    /\ command' = [cmd |-> cmd, args |-> args]
    /\ printed' = out
    /\ proxy_calls' = <<>>
    /\ turn' = Ask(nav, out, Absent).turn
    /\ UNCHANGED <<nav, remote>>
    /\ UNCHANGED notNav

\* The listing call of the current level.
LevelCall(n) ==
    CASE n.level = "ROOT" -> NavCall("list_boards", "client", Absent)
      [] n.level = "BOARD" -> NavCall("get_lists", n.board, Absent)
      [] OTHER -> NavCall("get_cards", n.list_obj, Absent)

\* cd: handle_cd.
Cd(args) ==
    IF args = <<>> THEN Local("cd", args, Result(nav, <<"Usage">>))
    ELSE IF args[1] = ".." THEN Local("cd", args, go_back(nav))
    ELSE IF args[1] = "/" THEN Local("cd", args, go_to_root(nav))
    ELSE IF nav.level = "CARD" THEN Local("cd", args, Result(nav, <<"Already at deepest level">>))
    ELSE IF nav.level = "BOARD" /\ nav.board = Absent
    THEN Local("cd", args, Result(nav, <<"No board selected">>))
    ELSE IF nav.level = "LIST" /\ nav.list_obj = Absent
    THEN Local("cd", args, Result(nav, <<"No list selected">>))
    ELSE Calling("cd", args, LevelCall(nav))

Back == Local("..", <<>>, go_back(nav))

Root == Local("/", <<>>, go_to_root(nav))

\* ls: handle_ls; list_board_contents, list_list_contents and
\* show_card_details return at once when nothing is selected at their level,
\* and at card level show_card_details calls no proxy.
Ls ==
    IF \/ nav.level = "BOARD" /\ nav.board = Absent
       \/ nav.level = "LIST" /\ nav.list_obj = Absent
       \/ nav.level = "CARD" /\ nav.card = Absent
    THEN Local("ls", <<>>, Result(nav, <<>>))
    ELSE IF nav.level = "CARD" THEN Local("ls", <<>>, Result(nav, <<"card details">>))
    ELSE Calling("ls", <<>>, LevelCall(nav))

Pwd == Local("pwd", <<>>, handle_pwd(nav))

Unknown(n) == Result(n, <<"Unknown command">>)

\* mkdir: handle_mkdir at board level, an unknown command elsewhere.
Mkdir(args) ==
    IF nav.level # "BOARD" THEN Local("mkdir", args, Unknown(nav))
    ELSE IF args = <<>> THEN Local("mkdir", args, Result(nav, <<"Usage">>))
    ELSE IF nav.board = Absent THEN Local("mkdir", args, Result(nav, <<"No board selected">>))
    ELSE Calling("mkdir", args, NavCall("create_list", nav.board, args[1]))

\* touch: handle_touch at list level, an unknown command elsewhere.
Touch(args) ==
    Local("touch", args, IF nav.level = "LIST" THEN handle_touch(nav, args) ELSE Unknown(nav))

\* mv: handle_mv.
Mv(args) ==
    CASE nav.level = "CARD" ->
            IF args = <<>> THEN Local("mv", args, Result(nav, <<"Usage">>))
            ELSE IF nav.board = Absent \/ nav.card = Absent \/ nav.list_obj = Absent
            THEN Local("mv", args,
                       Result(nav, <<"Invalid navigation state for card movement">>))
            ELSE Calling("mv", args, NavCall("get_lists", nav.board, Absent))
      [] nav.level = "LIST" ->
            IF Len(args) < 2 THEN Local("mv", args, Result(nav, <<"Usage">>))
            ELSE Local("mv", args,
                       Result(nav, <<"Card movement from list level coming soon">>))
      [] OTHER ->
            Local("mv", args, Result(nav, <<"mv can only be used at card or list level">>))

\* rm: handle_rm.
Rm(args) ==
    CASE nav.level = "CARD" ->
            IF nav.card = Absent
            THEN Local("rm", args, Result(nav, <<"Deletion cancelled">>))
            ELSE Asking("rm", args, <<"Delete?">>)
      [] nav.level = "LIST" ->
            IF args = <<>> THEN Local("rm", args, Result(nav, <<"Usage">>))
            ELSE Local("rm", args,
                       Result(nav, <<"Card deletion from list level coming soon">>))
      [] OTHER ->
            Local("rm", args, Result(nav, <<"rm can only be used at card or list level">>))

\* The server answers the next request of the call under way, or the request
\* fails.  A failed cards_count request is caught inside WekanList.__init__;
\* any other failure makes the call raise.  After the last request the call
\* returns and the handler goes on.
NavRequest(fails) ==
    /\ turn.pc = "request"
    /\ (Head(turn.reqs).kind = "post_list" /\ ~fails) => remote.created < MaxCreated
    /\ LET swallowed == fails /\ Head(turn.reqs).kind = "cards_count"
           t == IF fails THEN [turn EXCEPT !.reqs = Tail(@)] ELSE Served(turn, remote)
           go == Continue(t, nav, command, ~fails \/ swallowed)
       IN  /\ remote' = IF fails THEN remote ELSE Effect(remote, turn)
           /\ IF (~fails \/ swallowed) /\ t.reqs # <<>>
              THEN /\ turn' = t
                   /\ UNCHANGED <<nav, printed, proxy_calls>>
              ELSE /\ turn' = go.turn
                   /\ nav' = go.nav
                   /\ printed' = printed \o go.printed
                   /\ proxy_calls' = proxy_calls \o go.calls
    /\ UNCHANGED command
    /\ UNCHANGED notNav

\* The user answers Confirm.ask.
Answer(confirm) ==
    /\ turn.pc = "confirm"
    /\ IF command.cmd = "rm"
       THEN /\ nav' = delete_current_card(nav, confirm).nav
            /\ printed' = printed \o delete_current_card(nav, confirm).printed
            /\ turn' = AtPrompt
            /\ UNCHANGED proxy_calls
       ELSE IF confirm
       THEN LET go == Then(nav, "edit", NavCall("edit", nav.card, turn.target), <<>>,
                           turn.target)
            IN  /\ turn' = go.turn
                /\ proxy_calls' = proxy_calls \o go.calls
                /\ UNCHANGED <<nav, printed>>
       ELSE /\ printed' = Append(printed, "Move cancelled")
            /\ turn' = AtPrompt
            /\ UNCHANGED <<nav, proxy_calls>>
    /\ UNCHANGED <<remote, command>>
    /\ UNCHANGED notNav

\* Another client of the server changes it.
Changed(r) ==
    /\ remote.changes < MaxChanges
    /\ remote' = [r EXCEPT !.changes = @ + 1]
    /\ UNCHANGED <<nav, command, proxy_calls, printed, turn>>
    /\ UNCHANGED notNav

OtherCreatesList(b) ==
    /\ remote.created < MaxCreated
    /\ Changed([remote EXCEPT !.lists[b] = Append(@, NewListIds[remote.created + 1]),
                              !.created = @ + 1])

OtherDeletesList(b, l) ==
    /\ \E i \in 1..Len(remote.lists[b]) : remote.lists[b][i] = l
    /\ Changed([remote EXCEPT !.lists[b] = Without(@, l)])

OtherMovesCard(c, to) ==
    /\ \E l \in DOMAIN remote.cards : \E i \in 1..Len(remote.cards[l]) : remote.cards[l][i] = c
    /\ \A i \in 1..Len(remote.cards[to]) : remote.cards[to][i] # c
    /\ \E b \in DOMAIN remote.lists : \E i \in 1..Len(remote.lists[b]) : remote.lists[b][i] = to
    /\ Changed(Moved(remote, c, to))

NavInit ==
    /\ ClientIdle
    /\ tz = 0
    /\ ProxyIdle
    /\ EqIdle
    /\ CardIdle
    /\ ConfigIdle
    /\ ItemIdle
    /\ EditIdle
    /\ BoardsIdle
    /\ SharedIdle
    /\ NavIdle

NavNext ==
    \/ \E args \in ArgLines(Identifiers \cup {"..", "/"}) : Cd(args)
    \/ Back
    \/ Root
    \/ Ls
    \/ Pwd
    \/ \E args \in ArgLines(Names) : Mkdir(args)
    \/ \E args \in ArgLines(Names) : Touch(args)
    \/ \E args \in ArgLines(MoveTargets) \cup TwoWords : Mv(args)
    \/ \E args \in ArgLines(RemoveTargets) : Rm(args)
    \/ \E fails \in BOOLEAN : NavRequest(fails)
    \/ \E confirm \in BOOLEAN : Answer(confirm)
    \/ \E b \in DOMAIN StartRemote.lists : OtherCreatesList(b)
    \/ \E b \in DOMAIN StartRemote.lists, l \in DOMAIN StartRemote.cards : OtherDeletesList(b, l)
    \/ \E c \in {"c1", "c2"}, to \in DOMAIN StartRemote.cards : OtherMovesCard(c, to)

NavSpec == NavInit /\ [][NavNext]_vars

Issued(calls, name) == \E i \in 1..Len(calls) : calls[i].name = name

Shown(out, message) == \E i \in 1..Len(out) : out[i] = message

\* C25: a mkdir with a name at board level, a touch with a title at list
\* level, a confirmed mv and a confirmed rm at card level each issue their
\* proxy mutation (create_list, create_card, edit with the new list, delete)
\* before they end, and none of the four commands changes the context or
\* reports completion without that call.
C25_MutatingCommandsCallTheProxy ==
    [][LET cmd == command'.cmd
           mutation == CASE cmd = "mkdir" -> "create_list"
                         [] cmd = "touch" -> "create_card"
                         [] cmd = "mv" -> "edit"
                         [] cmd = "rm" -> "delete"
                         [] OTHER -> ""
           called == \E i \in 1..Len(proxy_calls') :
                         /\ proxy_calls'[i].name = mutation
                         /\ cmd = "mv" => proxy_calls'[i].arg # Absent
           ends == turn'.pc = "prompt" /\ (turn.pc # "prompt" \/ remote' = remote)
           asked == Shown(printed', "Move?") \/ Shown(printed', "Delete?")
           cancelled == Shown(printed', "Move cancelled") \/ Shown(printed', "Deletion cancelled")
           applies == \/ cmd = "mkdir" /\ nav.level = "BOARD" /\ command'.args # <<>>
                      \/ cmd = "touch" /\ nav.level = "LIST" /\ command'.args # <<>>
                      \/ cmd \in {"mv", "rm"} /\ nav.level = "CARD" /\ asked /\ ~cancelled
           completed == \/ Shown(printed', "Created list")
                        \/ Shown(printed', "Card moved")
       IN  /\ (ends /\ applies) => called
           /\ (mutation # "" /\ (nav' # nav \/ (completed /\ printed' # printed))) => called]_vars

\* C29: the level is ROOT exactly when nothing is selected, BOARD exactly
\* when only the board is, LIST exactly when the board and the list are and
\* the card is not, CARD exactly when all three are.
C29_LevelMatchesSelections ==
    LET b == nav.board # Absent
        l == nav.list_obj # Absent
        c == nav.card # Absent
    IN  /\ nav.level \in Levels
        /\ nav.level = "ROOT" <=> (~b /\ ~l /\ ~c)
        /\ nav.level = "BOARD" <=> (b /\ ~l /\ ~c)
        /\ nav.level = "LIST" <=> (b /\ l /\ ~c)
        /\ nav.level = "CARD" <=> (b /\ l /\ c)

\* A confirmed mv moved the card and left the shell in the target list.
C29_Witness ==
    /\ command.cmd = "mv"
    /\ turn.pc = "prompt"
    /\ Issued(proxy_calls, "edit")
    /\ Shown(printed, "Card moved")
    /\ nav = [level |-> "LIST", board |-> "b1", list_obj |-> "l2", card |-> Absent]
    /\ remote.cards.l2 # <<>>

====
